---- MODULE Spec2Model ----
(***************************************************************************)
(* A model of the Merkle range-proof and diff-proof engine                 *)
(* (range.go, diff.go) together with the Tree accumulator it rebuilds      *)
(* roots with (merkletree-blake/tree.go).                                  *)
(*                                                                         *)
(* Digests are terms of a free algebra, i.e. the hash is collision free:   *)
(*   leafSum(d)   is the 1-tuple <<d>>                                     *)
(*   nodeSum(a,b) is the 2-tuple <<a, b>>                                  *)
(* so two digests are equal exactly when they were built the same way.     *)
(*                                                                         *)
(* uint64 values are represented by small integers.  The all-ones word     *)
(* math.MaxUint64 is represented by its residue -1 modulo 2^64, and a      *)
(* subtraction that wraps around is handled in Len64Sub.                   *)
(***************************************************************************)
EXTENDS Integers, Sequences, FiniteSets, TLC

(***************************************************************************)
(* Bounds of the model.                                                    *)
(***************************************************************************)
\* largest number of leaves a data source holds, and largest range bound
MaxLeaves == 12
\* largest source whose proofs are altered on the way to the verifier
MaxTamperLeaves == 7
\* largest number of ranges in a range set
MaxRanges == 2
\* largest End in a valid range set of more than one range
MaxMultiEnd == 8
\* largest bound of a range in the arbitrary (possibly invalid) range sets
MaxBound == 3
\* largest end given to nextSubtreeSize when it is exercised on its own
MaxEnd == 20
\* largest number of nodes appended to a Stack between two resets
MaxStackNodes == 8
\* largest number of leaves a Tree on its own takes
MaxTreeLeaves == 12
\* largest tree whose single-leaf proofs are converted
MaxConvLeaves == 33
\* largest number of digests in a sequence given to the converters
MaxProofSize == 6
\* largest index given to the converters with such a sequence
MaxConvIndex == 70
\* largest tree whose leaves are edited under a diff proof
MaxModLeaves == 8
\* largest tree whose range leaves are compressed on their own
MaxCompLeaves == 9
\* largest tree given to the range verifier and the diff verifier together
MaxAgreeLeaves == 9
\* largest number of leaves a Stack and a Tree are fed side by side
MaxHeightsLeaves == 12
\* largest tree a MixedSubtreeHasher is made for
MaxMixedLeaves == 8
\* largest number of leaves under one node hash of a MixedSubtreeHasher
MaxLeavesPerNode == 4
\* VerifyAny: ranges end within MaxVerdictEnd leaves, numLeaves too
MaxVerdictEnd == 5
\* VerifyAny: digests in the proof
MaxVerdictProof == 5
\* VerifyAny: leaf hashes or range hashes handed over
MaxVerdictHashes == 5

(***************************************************************************)
(* Words and bit operations (math/bits).                                   *)
(***************************************************************************)
WordBits == 64
MaxUint64 == -1

RECURSIVE TrailingZeros64(_)
TrailingZeros64(x) ==
    IF x = 0 THEN WordBits
    ELSE IF x % 2 = 1 THEN 0
    ELSE 1 + TrailingZeros64(x \div 2)

RECURSIVE Len64(_)
Len64(x) == IF x = 0 THEN 0 ELSE 1 + Len64(x \div 2)

\* bits.Len64(end-start) in uint64 arithmetic: when end < start (as words)
\* the difference wraps to 2^64 - (start - end), whose top bit is set for
\* every start and end the model uses.  MaxUint64 (-1) is the largest word.
Len64Sub(end, start) ==
    IF end = MaxUint64 THEN (IF start = MaxUint64 THEN 0 ELSE WordBits)
    ELSE IF end >= start THEN Len64(end - start)
    ELSE WordBits

\* nextSubtreeSize with the "- 1" of max forgotten
nextSubtreeSizeNoDec(start, end) ==
    LET ideal == TrailingZeros64(start)
        max   == Len64Sub(end, start)
    IN  IF ideal > max THEN 2 ^ max ELSE 2 ^ ideal

nextSubtreeSize(start, end) ==
    LET ideal == TrailingZeros64(start)
        max   == Len64Sub(end, start) - 1
    IN  IF ideal > max THEN 2 ^ max ELSE 2 ^ ideal

(***************************************************************************)
(* Hashing.                                                                *)
(***************************************************************************)
leafSum(data) == <<data>>
nodeSum(a, b) == <<a, b>>
\* the root of an empty Tree
NilDigest == <<>>
\* a digest that is the hash of nothing in any tree of the model
JunkDigest == <<-1>>

(***************************************************************************)
(* Errors.                                                                 *)
(***************************************************************************)
NoErr == "nil"
EOF == "io.EOF"
ErrUnexpectedEOF == "io.ErrUnexpectedEOF"
ErrSubtreeTooLarge == "can't add a subtree that is larger than the smallest subtree"
ErrContainsProofIndex == "the cached tree shouldn't contain the element to prove"
PanicIllegalRanges == "panic: illegal set of proof ranges"

(***************************************************************************)
(* Tree (merkletree-blake/tree.go).                                        *)
(***************************************************************************)
New ==
    [stack |-> <<>>, currentIndex |-> 0, proofIndex |-> 0,
     proofBase |-> NilDigest, proofSet |-> <<>>, proofTree |-> FALSE]

joinSubTrees(a, b) ==
    [height |-> a.height + 1, sum |-> nodeSum(a.sum, b.sum)]

RECURSIVE joinAllSubTreesOtherSibling(_)
\* joinAllSubTrees adding to the proof set the subtree that holds the proof
\* index instead of its sibling
joinAllSubTreesOtherSibling(t) ==
    LET i == Len(t.stack)
        j == Len(t.stack) - 1
    IN  IF Len(t.stack) > 1 /\ t.stack[i].height = t.stack[j].height
        THEN LET leaves == 2 ^ t.stack[i].height
                 mid    == (t.currentIndex \div leaves) * leaves
                 pset   == IF t.stack[i].height = Len(t.proofSet) - 1
                           THEN IF t.proofIndex < mid
                                THEN Append(t.proofSet, t.stack[j].sum)
                                ELSE Append(t.proofSet, t.stack[i].sum)
                           ELSE t.proofSet
                 joined == Append(SubSeq(t.stack, 1, j - 1),
                                  joinSubTrees(t.stack[j], t.stack[i]))
             IN  joinAllSubTreesOtherSibling(
                    [t EXCEPT !.proofSet = pset, !.stack = joined])
        ELSE t

\* joinAllSubTrees joining the last two subtrees once and stopping there
joinAllSubTreesOnce(t) ==
    LET i == Len(t.stack)
        j == Len(t.stack) - 1
    IN  IF Len(t.stack) > 1 /\ t.stack[i].height = t.stack[j].height
        THEN LET leaves == 2 ^ t.stack[i].height
                 mid    == (t.currentIndex \div leaves) * leaves
                 pset   == IF t.stack[i].height = Len(t.proofSet) - 1
                           THEN IF t.proofIndex < mid
                                THEN Append(t.proofSet, t.stack[i].sum)
                                ELSE Append(t.proofSet, t.stack[j].sum)
                           ELSE t.proofSet
                 joined == Append(SubSeq(t.stack, 1, j - 1),
                                  joinSubTrees(t.stack[j], t.stack[i]))
             IN  [t EXCEPT !.proofSet = pset, !.stack = joined]
        ELSE t

RECURSIVE joinAllSubTrees(_)
joinAllSubTrees(t) ==
    LET i == Len(t.stack)
        j == Len(t.stack) - 1
    IN  IF Len(t.stack) > 1 /\ t.stack[i].height = t.stack[j].height
        THEN LET leaves == 2 ^ t.stack[i].height
                 mid    == (t.currentIndex \div leaves) * leaves
                 pset   == IF t.stack[i].height = Len(t.proofSet) - 1
                           THEN IF t.proofIndex < mid
                                THEN Append(t.proofSet, t.stack[i].sum)
                                ELSE Append(t.proofSet, t.stack[j].sum)
                           ELSE t.proofSet
                 joined == Append(SubSeq(t.stack, 1, j - 1),
                                  joinSubTrees(t.stack[j], t.stack[i]))
             IN  joinAllSubTrees([t EXCEPT !.proofSet = pset, !.stack = joined])
        ELSE t

\* PushSubTree turning down a subtree as high as the smallest one
PushSubTreeStrict(t, height, sum) ==
    LET newIndex == t.currentIndex + 2 ^ height
        atIndex  == t.proofTree /\ t.currentIndex = t.proofIndex /\ height = 0
        straddle == t.proofTree /\ ~atIndex
                    /\ t.currentIndex <= t.proofIndex /\ t.proofIndex < newIndex
        t1       == IF atIndex
                    THEN [t EXCEPT !.proofSet = Append(t.proofSet, sum)]
                    ELSE t
    IN  IF straddle
        THEN [tree |-> t, err |-> ErrContainsProofIndex]
        ELSE IF Len(t1.stack) # 0 /\ height >= t1.stack[Len(t1.stack)].height
        THEN [tree |-> t1, err |-> ErrSubtreeTooLarge]
        ELSE LET t2 == [t1 EXCEPT !.stack =
                            Append(t1.stack, [height |-> height, sum |-> sum])]
                 t3 == joinAllSubTrees(t2)
             IN  [tree |-> [t3 EXCEPT !.currentIndex = newIndex], err |-> NoErr]

\* PushSubTree looking for the proof index one leaf too far to the left
PushSubTreeShortSpan(t, height, sum) ==
    LET newIndex == t.currentIndex + 2 ^ height
        atIndex  == t.proofTree /\ t.currentIndex = t.proofIndex /\ height = 0
        straddle == t.proofTree /\ ~atIndex
                    /\ t.currentIndex <= t.proofIndex
                    /\ t.proofIndex < newIndex - 1
        t1       == IF atIndex
                    THEN [t EXCEPT !.proofSet = Append(t.proofSet, sum)]
                    ELSE t
    IN  IF straddle
        THEN [tree |-> t, err |-> ErrContainsProofIndex]
        ELSE IF Len(t1.stack) # 0 /\ height > t1.stack[Len(t1.stack)].height
        THEN [tree |-> t1, err |-> ErrSubtreeTooLarge]
        ELSE LET t2 == [t1 EXCEPT !.stack =
                            Append(t1.stack, [height |-> height, sum |-> sum])]
                 t3 == joinAllSubTrees(t2)
             IN  [tree |-> [t3 EXCEPT !.currentIndex = newIndex], err |-> NoErr]

\* returns the tree after the call and the error of the call
PushSubTree(t, height, sum) ==
    LET newIndex == t.currentIndex + 2 ^ height
        atIndex  == t.proofTree /\ t.currentIndex = t.proofIndex /\ height = 0
        straddle == t.proofTree /\ ~atIndex
                    /\ t.currentIndex <= t.proofIndex /\ t.proofIndex < newIndex
        t1       == IF atIndex
                    THEN [t EXCEPT !.proofSet = Append(t.proofSet, sum)]
                    ELSE t
    IN  IF straddle
        THEN [tree |-> t, err |-> ErrContainsProofIndex]
        ELSE IF Len(t1.stack) # 0 /\ height > t1.stack[Len(t1.stack)].height
        THEN [tree |-> t1, err |-> ErrSubtreeTooLarge]
        ELSE LET t2 == [t1 EXCEPT !.stack =
                            Append(t1.stack, [height |-> height, sum |-> sum])]
                 t3 == joinAllSubTrees(t2)
             IN  [tree |-> [t3 EXCEPT !.currentIndex = newIndex], err |-> NoErr]

RECURSIVE foldRoot(_, _, _)
foldRoot(stack, i, current) ==
    IF i >= 1 THEN foldRoot(stack, i - 1, joinSubTrees(stack[i], current))
    ELSE current

Root(t) ==
    IF Len(t.stack) = 0 THEN NilDigest
    ELSE foldRoot(t.stack, Len(t.stack) - 1, t.stack[Len(t.stack)]).sum

\* Tree.Push: the tree after the call
Push(t, data) ==
    LET t1 == IF t.currentIndex = t.proofIndex
              THEN [t EXCEPT !.proofBase = data,
                             !.proofSet = Append(t.proofSet, leafSum(data))]
              ELSE t
        t2 == [t1 EXCEPT !.stack =
                   Append(t1.stack, [height |-> 0, sum |-> leafSum(data)])]
        joined(t3) == [t3 EXCEPT !.currentIndex = t3.currentIndex + 1]
    IN  joined(joinAllSubTrees(t2))

ErrSetIndex == "cannot call SetIndex on Tree if Tree has not been reset"

\* SetIndex without the look at the stack
SetIndexAnyTime(t, i) ==
    [tree |-> [t EXCEPT !.proofTree = TRUE, !.proofIndex = i], err |-> NoErr]

\* Tree.SetIndex: the tree after the call and the error of the call
SetIndex(t, i) ==
    IF Len(t.stack) # 0
    THEN [tree |-> t, err |-> ErrSetIndex]
    ELSE [tree |-> [t EXCEPT !.proofTree = TRUE, !.proofIndex = i],
          err |-> NoErr]

PanicProve == "panic: wrong usage: can't call prove on a tree if SetIndex wasn't called"

RECURSIVE proveJoinRight(_, _, _, _)
\* Prove: the subtrees right of the one holding the proof index are joined
\* into current; k is the stack position the loop stops at
proveJoinRight(stack, k, current, height) ==
    IF k >= 1 /\ stack[k].height < height
    THEN proveJoinRight(stack, k - 1, joinSubTrees(stack[k], current), height)
    ELSE [k |-> k, current |-> current]

RECURSIVE proveLeft(_, _, _)
\* Prove: the remaining subtrees are left siblings
proveLeft(stack, k, proofSet) ==
    IF k >= 1 THEN proveLeft(stack, k - 1, Append(proofSet, stack[k].sum))
    ELSE proofSet

\* Tree.Prove: merkleRoot, base, proofSet, proofIndex, numLeaves, or a panic
Prove(t) ==
    IF ~t.proofTree
    THEN [panic |-> PanicProve, root |-> NilDigest, base |-> NilDigest,
          proofSet |-> <<>>, proofIndex |-> 0, numLeaves |-> 0]
    ELSE IF Len(t.stack) = 0 \/ Len(t.proofSet) = 0
    THEN [panic |-> NoErr, root |-> Root(t), base |-> NilDigest,
          proofSet |-> <<>>, proofIndex |-> t.proofIndex,
          numLeaves |-> t.currentIndex]
    ELSE LET found(j) ==
                 LET atIndex == j.k >= 1
                                /\ t.stack[j.k].height = Len(t.proofSet) - 1
                     pset    == IF atIndex
                                THEN Append(t.proofSet, j.current.sum)
                                ELSE t.proofSet
                     k       == IF atIndex THEN j.k - 1 ELSE j.k
                 IN  proveLeft(t.stack, k, pset)
         IN  [panic |-> NoErr, root |-> Root(t), base |-> t.proofBase,
              proofSet |-> found(proveJoinRight(t.stack, Len(t.stack) - 1,
                                                t.stack[Len(t.stack)],
                                                Len(t.proofSet) - 1)),
              proofIndex |-> t.proofIndex, numLeaves |-> t.currentIndex]

(***************************************************************************)
(* Stack (stack.go).  Slot i of the Go slice is element i + 1 of stack;    *)
(* slots that were never written hold nil.  used has one bit per slot.     *)
(***************************************************************************)
NewStack == [stack |-> <<>>, used |-> 0]

\* Hash(nodeHashPrefix || left || right), the hash nodeSum computes
nodeHash(left, right) == nodeSum(left, right)

RECURSIVE seekOpenSlotSwapped(_, _, _, _)
\* the merge on the way to the open slot with its operands swapped
seekOpenSlotSwapped(s, bits, node, i) ==
    IF bits % 2 # 0
    THEN seekOpenSlotSwapped(s, bits \div 2, nodeHash(node, s.stack[i + 1]),
                             i + 1)
    ELSE [i |-> i, node |-> node]

RECURSIVE seekOpenSlot(_, _, _, _)
\* seek to the first open slot, merging nodes on the way; bits is used
\* shifted right by i
seekOpenSlot(s, bits, node, i) ==
    IF bits % 2 # 0
    THEN seekOpenSlot(s, bits \div 2, nodeHash(s.stack[i + 1], node), i + 1)
    ELSE [i |-> i, node |-> node]

RECURSIVE ShiftRight(_, _)
ShiftRight(x, k) == IF k = 0 THEN x ELSE ShiftRight(x \div 2, k - 1)

\* appendNodeAtHeight for height < 64
appendNodeAtHeight(s, node, height) ==
    LET placed(o) ==
            LET grown == IF o.i >= Len(s.stack)
                         THEN s.stack \o [k \in 1..(1 + o.i - Len(s.stack))
                                            |-> NilDigest]
                         ELSE s.stack
            IN  [stack |-> [grown EXCEPT ![o.i + 1] = o.node],
                 used |-> s.used + 2 ^ height]
    IN  placed(seekOpenSlot(s, ShiftRight(s.used, height), node, height))

AppendNode(s, node) == appendNodeAtHeight(s, node, 0)

NumNodes(s) == s.used

\* Reset leaving the Stack as it is
ResetNothing(s) == s

Reset(s) == [s EXCEPT !.used = 0]

RECURSIVE stackRootFoldSwapped(_, _, _, _)
\* Root combining each occupied slot as the right operand
stackRootFoldSwapped(s, bits, i, root) ==
    IF i < WordBits
    THEN stackRootFoldSwapped(s, bits \div 2, i + 1,
                              IF bits % 2 # 0
                              THEN nodeHash(root, s.stack[i + 1])
                              ELSE root)
    ELSE root

RECURSIVE stackRootFold(_, _, _, _)
\* Root: the occupied slots above i are combined, each as the left operand
stackRootFold(s, bits, i, root) ==
    IF i < WordBits
    THEN stackRootFold(s, bits \div 2, i + 1,
                       IF bits % 2 # 0 THEN nodeHash(s.stack[i + 1], root)
                       ELSE root)
    ELSE root

\* Root telling an empty Stack by its slots instead of by used
StackRootBySlots(s) ==
    IF Len(s.stack) = 0 THEN NilDigest
    ELSE IF s.used = 0 THEN s.stack[1]
    ELSE LET i == TrailingZeros64(s.used)
         IN  stackRootFold(s, ShiftRight(s.used, i + 1), i + 1, s.stack[i + 1])

\* Stack.Root
StackRoot(s) ==
    LET i == TrailingZeros64(s.used)
    IN  IF i = WordBits THEN NilDigest
        ELSE stackRootFold(s, ShiftRight(s.used, i + 1), i + 1, s.stack[i + 1])

(***************************************************************************)
(* Data sources (range.go).  A CachedSubtreeHasher and a CachedLeafHasher  *)
(* are the sequences of leaf hashes they have not handed out yet.          *)
(***************************************************************************)
RECURSIVE pushLeafHashes(_, _, _)
pushLeafHashes(tree, leafHashes, k) ==
    IF k > 0 /\ Len(leafHashes) > 0
    THEN LET pushed(r) ==
                 IF r.err # NoErr
                 THEN [tree |-> r.tree, leafHashes |-> leafHashes, err |-> r.err]
                 ELSE pushLeafHashes(r.tree, Tail(leafHashes), k - 1)
         IN  pushed(PushSubTree(tree, 0, Head(leafHashes)))
    ELSE [tree |-> tree, leafHashes |-> leafHashes, err |-> NoErr]

\* NextSubtreeRoot signalling exhaustion when fewer than subtreeSize leaves
\* are left, instead of returning the root of those leaves
CachedNextSubtreeRootFullOnly(leafHashes, subtreeSize) ==
    IF Len(leafHashes) < subtreeSize
    THEN [root |-> NilDigest, err |-> EOF, leafHashes |-> leafHashes]
    ELSE LET hashed(r) ==
                 [root |-> Root(r.tree), err |-> r.err, leafHashes |-> r.leafHashes]
         IN  hashed(pushLeafHashes(New, leafHashes, subtreeSize))

\* CachedSubtreeHasher.NextSubtreeRoot: the root, the error and the hasher
\* after the call
CachedNextSubtreeRoot(leafHashes, subtreeSize) ==
    IF Len(leafHashes) = 0
    THEN [root |-> NilDigest, err |-> EOF, leafHashes |-> leafHashes]
    ELSE LET hashed(r) ==
                 IF r.err # NoErr
                 THEN [root |-> NilDigest, err |-> r.err,
                       leafHashes |-> r.leafHashes]
                 ELSE [root |-> Root(r.tree), err |-> NoErr,
                       leafHashes |-> r.leafHashes]
         IN  hashed(pushLeafHashes(New, leafHashes, subtreeSize))

\* CachedSubtreeHasher.Skip: the error and the hasher after the call
CachedSkip(leafHashes, n) ==
    IF n > Len(leafHashes)
    THEN [err |-> ErrUnexpectedEOF, leafHashes |-> leafHashes]
    ELSE [err |-> NoErr,
          leafHashes |-> SubSeq(leafHashes, n + 1, Len(leafHashes))]

\* CachedLeafHasher.NextLeafHash
NextLeafHash(leafHashes) ==
    IF Len(leafHashes) = 0
    THEN [hash |-> NilDigest, err |-> EOF, leafHashes |-> leafHashes]
    ELSE [hash |-> Head(leafHashes), err |-> NoErr,
          leafHashes |-> Tail(leafHashes)]

(***************************************************************************)
(* Range sets.                                                             *)
(***************************************************************************)
\* validRangeSet without the comparison with the previous range
validRangeSetNoOverlap(ranges) ==
    \A i \in 1..Len(ranges) : ~(ranges[i].Start >= ranges[i].End)

validRangeSet(ranges) ==
    \A i \in 1..Len(ranges) :
        /\ ~(ranges[i].Start >= ranges[i].End)
        /\ ~(i > 1 /\ ranges[i - 1].End > ranges[i].Start)

(***************************************************************************)
(* BuildMultiRangeProof (range.go).  The builder state b holds the cursor  *)
(* leafIndex, the proof so far, the SubtreeHasher sh, the error of the     *)
(* last hasher call, and calls: the record of the calls made to the        *)
(* SubtreeHasher, as the mockSubtreeHasher of the tests keeps it.          *)
(***************************************************************************)
Call(op, pos, n, err) == [op |-> op, pos |-> pos, n |-> n, err |-> err]

RECURSIVE buildConsumeUntil(_, _)
buildConsumeUntil(b, end) ==
    IF b.leafIndex # end
    THEN LET consumed(subtreeSize, r) ==
                 LET calls == Append(b.calls,
                                Call("NextSubtreeRoot", b.leafIndex, subtreeSize,
                                     r.err))
                 IN  IF r.err # NoErr
                     THEN [b EXCEPT !.err = r.err, !.sh = r.leafHashes,
                                    !.calls = calls]
                     ELSE buildConsumeUntil(
                            [b EXCEPT !.proof = Append(b.proof, r.root),
                                      !.leafIndex = b.leafIndex + subtreeSize,
                                      !.sh = r.leafHashes, !.calls = calls], end)
             sized(subtreeSize) ==
                 consumed(subtreeSize, CachedNextSubtreeRoot(b.sh, subtreeSize))
         IN  sized(nextSubtreeSize(b.leafIndex, end))
    ELSE b

\* the whole proof range skipped in one call
buildSkipWhole(b, end) ==
    IF b.leafIndex # end
    THEN LET n == end - b.leafIndex
             r == CachedSkip(b.sh, n)
         IN  [b EXCEPT !.err = r.err, !.sh = r.leafHashes,
                       !.leafIndex = IF r.err = NoErr THEN end ELSE @,
                       !.calls = Append(b.calls,
                                   Call("Skip", b.leafIndex, n, r.err))]
    ELSE b

\* skip leaves within proof range, one subtree at a time
RECURSIVE buildSkipUntil(_, _)
buildSkipUntil(b, end) ==
    IF b.leafIndex # end
    THEN LET skipped(subtreeSize, r) ==
                 LET calls == Append(b.calls,
                                Call("Skip", b.leafIndex, subtreeSize, r.err))
                 IN  IF r.err # NoErr
                     THEN [b EXCEPT !.err = r.err, !.sh = r.leafHashes,
                                    !.calls = calls]
                     ELSE buildSkipUntil(
                            [b EXCEPT !.leafIndex = b.leafIndex + subtreeSize,
                                      !.sh = r.leafHashes, !.calls = calls], end)
             sized(subtreeSize) ==
                 skipped(subtreeSize, CachedSkip(b.sh, subtreeSize))
         IN  sized(nextSubtreeSize(b.leafIndex, end))
    ELSE b

RECURSIVE buildRanges(_, _)
buildRanges(b, ranges) ==
    IF Len(ranges) = 0 THEN b
    ELSE LET skipped(b2) ==
                 IF b2.err # NoErr THEN b2 ELSE buildRanges(b2, Tail(ranges))
             consumed(b1) ==
                 IF b1.err # NoErr THEN b1
                 ELSE skipped(buildSkipUntil(b1, Head(ranges).End))
         IN  consumed(buildConsumeUntil(b, Head(ranges).Start))

NewBuild(sh) ==
    [leafIndex |-> 0, proof |-> <<>>, sh |-> sh, err |-> NoErr, calls |-> <<>>]

\* BuildMultiRangeProof returning after the last range, without the proof
\* hashes up to the end of the tree
BuildMultiRangeProofNoTail(ranges, sh) ==
    IF Len(ranges) = 0
    THEN [proof |-> <<>>, err |-> NoErr, calls |-> <<>>]
    ELSE IF ~validRangeSet(ranges)
    THEN [proof |-> <<>>, err |-> PanicIllegalRanges, calls |-> <<>>]
    ELSE LET walked(b) ==
                 IF b.err # NoErr
                 THEN [proof |-> <<>>, err |-> b.err, calls |-> b.calls]
                 ELSE [proof |-> b.proof, err |-> NoErr, calls |-> b.calls]
         IN  walked(buildRanges(NewBuild(sh), ranges))

\* the proof, the error, and the calls made to the SubtreeHasher
BuildMultiRangeProof(ranges, sh) ==
    IF Len(ranges) = 0
    THEN [proof |-> <<>>, err |-> NoErr, calls |-> <<>>]
    ELSE IF ~validRangeSet(ranges)
    THEN [proof |-> <<>>, err |-> PanicIllegalRanges, calls |-> <<>>]
    ELSE LET ended(e) ==
                 [proof |-> e.proof,
                  err |-> IF e.err = EOF THEN NoErr ELSE e.err,
                  calls |-> e.calls]
             walked(b) ==
                 IF b.err # NoErr
                 THEN [proof |-> <<>>, err |-> b.err, calls |-> b.calls]
                 ELSE ended(buildConsumeUntil(b, MaxUint64))
         IN  walked(buildRanges(NewBuild(sh), ranges))

(***************************************************************************)
(* VerifyMultiRangeProof (range.go).  The verifier state v holds the tree  *)
(* being rebuilt, the cursor leafIndex, the rest of the proof, the         *)
(* LeafHasher lh and the error that stopped the walk.                      *)
(***************************************************************************)
RECURSIVE verifyConsumeUntil(_, _)
verifyConsumeUntil(v, end) ==
    IF v.leafIndex # end /\ Len(v.proof) > 0
    THEN LET pushed(subtreeSize, r) ==
                 IF r.err # NoErr
                 THEN [v EXCEPT !.err = r.err, !.tree = r.tree]
                 ELSE verifyConsumeUntil(
                        [v EXCEPT !.tree = r.tree, !.proof = Tail(v.proof),
                                  !.leafIndex = v.leafIndex + subtreeSize], end)
             sized(subtreeSize) ==
                 pushed(subtreeSize,
                        PushSubTree(v.tree, TrailingZeros64(subtreeSize),
                                    Head(v.proof)))
         IN  sized(nextSubtreeSize(v.leafIndex, end))
    ELSE v

\* add leaf hashes within the proof range
RECURSIVE verifyPushLeaves(_, _, _)
verifyPushLeaves(v, i, end) ==
    IF i < end
    THEN LET pushed(l, r) ==
                 IF r.err # NoErr
                 THEN [v EXCEPT !.err = "panic: " \o r.err, !.lh = l.leafHashes]
                 ELSE verifyPushLeaves(
                        [v EXCEPT !.tree = r.tree, !.lh = l.leafHashes],
                        i + 1, end)
             hashed(l) ==
                 IF l.err # NoErr
                 THEN [v EXCEPT !.err = l.err, !.lh = l.leafHashes]
                 ELSE pushed(l, PushSubTree(v.tree, 0, l.hash))
         IN  hashed(NextLeafHash(v.lh))
    ELSE v

RECURSIVE verifyRanges(_, _)
verifyRanges(v, ranges) ==
    IF Len(ranges) = 0 THEN v
    ELSE LET r == Head(ranges)
             pushed(v2) ==
                 IF v2.err # NoErr THEN v2
                 ELSE verifyRanges(
                        [v2 EXCEPT !.leafIndex = v2.leafIndex + r.End - r.Start],
                        Tail(ranges))
             consumed(v1) ==
                 IF v1.err # NoErr THEN v1
                 ELSE pushed(verifyPushLeaves(v1, r.Start, r.End))
         IN  consumed(verifyConsumeUntil(v, r.Start))

NewVerify(lh, proof) ==
    [tree |-> New, leafIndex |-> 0, proof |-> proof, lh |-> lh, err |-> NoErr]

\* the walk with the last digest of the proof never pushed
verifyWalkDropLast(lh, ranges, proof) ==
    LET walked(v) ==
            IF v.err # NoErr THEN v
            ELSE verifyConsumeUntil(
                   [v EXCEPT !.proof = SubSeq(v.proof, 1, Len(v.proof) - 1)],
                   MaxUint64)
    IN  walked(verifyRanges(NewVerify(lh, proof), ranges))

\* the walk of VerifyMultiRangeProof over a valid, non-empty range set
verifyWalk(lh, ranges, proof) ==
    LET walked(v) ==
            IF v.err # NoErr THEN v ELSE verifyConsumeUntil(v, MaxUint64)
    IN  walked(verifyRanges(NewVerify(lh, proof), ranges))

\* VerifyMultiRangeProof reporting a walk without error as success
VerifyMultiRangeProofNoCompare(lh, ranges, proof, root) ==
    IF Len(ranges) = 0
    THEN [ok |-> TRUE, err |-> NoErr]
    ELSE IF ~validRangeSet(ranges)
    THEN [ok |-> FALSE, err |-> PanicIllegalRanges]
    ELSE LET walked(v) == [ok |-> v.err = NoErr, err |-> v.err]
         IN  walked(verifyWalk(lh, ranges, proof))

VerifyMultiRangeProof(lh, ranges, proof, root) ==
    IF Len(ranges) = 0
    THEN [ok |-> TRUE, err |-> NoErr]
    ELSE IF ~validRangeSet(ranges)
    THEN [ok |-> FALSE, err |-> PanicIllegalRanges]
    ELSE LET walked(v) ==
                 IF v.err # NoErr
                 THEN [ok |-> FALSE, err |-> v.err]
                 ELSE [ok |-> Root(v.tree) = root, err |-> NoErr]
         IN  walked(verifyWalk(lh, ranges, proof))


(***************************************************************************)
(* BuildDiffProof, CompressLeafHashes, VerifyDiffProof (diff.go).          *)
(***************************************************************************)
\* BuildDiffProof consuming one leaf past numLeaves
BuildDiffProofOneMore(ranges, sh, numLeaves) ==
    IF ~validRangeSet(ranges)
    THEN [proof |-> <<>>, err |-> PanicIllegalRanges, calls |-> <<>>]
    ELSE LET ended(e) ==
                 [proof |-> e.proof,
                  err |-> IF e.err = EOF THEN NoErr ELSE e.err,
                  calls |-> e.calls]
             walked(b) ==
                 IF b.err # NoErr
                 THEN [proof |-> <<>>, err |-> b.err, calls |-> b.calls]
                 ELSE ended(buildConsumeUntil(b, numLeaves + 1))
         IN  walked(buildRanges(NewBuild(sh), ranges))

BuildDiffProof(ranges, sh, numLeaves) ==
    IF ~validRangeSet(ranges)
    THEN [proof |-> <<>>, err |-> PanicIllegalRanges, calls |-> <<>>]
    ELSE LET ended(e) ==
                 [proof |-> e.proof,
                  err |-> IF e.err = EOF THEN NoErr ELSE e.err,
                  calls |-> e.calls]
             walked(b) ==
                 IF b.err # NoErr
                 THEN [proof |-> <<>>, err |-> b.err, calls |-> b.calls]
                 ELSE ended(buildConsumeUntil(b, numLeaves))
         IN  walked(buildRanges(NewBuild(sh), ranges))

RECURSIVE compressRangeUnaligned(_, _, _)
\* the roots of one range cut by what is left of the range alone, whatever
\* the position of the cursor
compressRangeUnaligned(c, leafIndex, end) ==
    IF leafIndex # end
    THEN LET hashed(subtreeSize, r) ==
                 IF r.err # NoErr
                 THEN [c EXCEPT !.err = r.err, !.sh = r.leafHashes]
                 ELSE compressRangeUnaligned(
                        [c EXCEPT !.compressed = Append(c.compressed, r.root),
                                  !.sh = r.leafHashes],
                        leafIndex + subtreeSize, end)
             sized(subtreeSize) ==
                 hashed(subtreeSize, CachedNextSubtreeRoot(c.sh, subtreeSize))
         IN  sized(nextSubtreeSize(0, end - leafIndex))
    ELSE c

\* the roots of one range: c holds the compressed hashes so far, the
\* SubtreeHasher sh and the error of the last call
RECURSIVE compressRange(_, _, _)
compressRange(c, leafIndex, end) ==
    IF leafIndex # end
    THEN LET hashed(subtreeSize, r) ==
                 IF r.err # NoErr
                 THEN [c EXCEPT !.err = r.err, !.sh = r.leafHashes]
                 ELSE compressRange(
                        [c EXCEPT !.compressed = Append(c.compressed, r.root),
                                  !.sh = r.leafHashes],
                        leafIndex + subtreeSize, end)
             sized(subtreeSize) ==
                 hashed(subtreeSize, CachedNextSubtreeRoot(c.sh, subtreeSize))
         IN  sized(nextSubtreeSize(leafIndex, end))
    ELSE c

RECURSIVE compressRanges(_, _)
compressRanges(c, ranges) ==
    IF Len(ranges) = 0 THEN c
    ELSE LET compressed(c1) ==
                 IF c1.err # NoErr THEN c1 ELSE compressRanges(c1, Tail(ranges))
         IN  compressed(compressRange(c, Head(ranges).Start, Head(ranges).End))

\* CompressLeafHashes handing back the leaf hashes as they are
CompressLeafHashesFlat(ranges, sh) ==
    IF ~validRangeSet(ranges)
    THEN [compressed |-> <<>>, err |-> PanicIllegalRanges]
    ELSE [compressed |-> sh, err |-> NoErr]

CompressLeafHashes(ranges, sh) ==
    IF ~validRangeSet(ranges)
    THEN [compressed |-> <<>>, err |-> PanicIllegalRanges]
    ELSE LET done(c) ==
                 IF c.err # NoErr
                 THEN [compressed |-> <<>>, err |-> c.err]
                 ELSE [compressed |-> c.compressed, err |-> NoErr]
         IN  done(compressRanges(
                    [compressed |-> <<>>, sh |-> sh, err |-> NoErr], ranges))

\* consumeUntil of VerifyDiffProof leaving its cursor at end also when the
\* hashes run out before
RECURSIVE diffConsumeUntilJump(_, _, _)
diffConsumeUntilJump(v, end, fromProof) ==
    LET hashes == IF fromProof THEN v.proof ELSE v.rangeHashes
    IN  IF v.leafIndex # end /\ Len(hashes) > 0
        THEN LET pushed(subtreeSize, r) ==
                     IF r.err # NoErr
                     THEN [v EXCEPT !.err = r.err, !.tree = r.tree]
                     ELSE diffConsumeUntilJump(
                            [v EXCEPT !.tree = r.tree,
                                      !.proof = IF fromProof THEN Tail(hashes) ELSE @,
                                      !.rangeHashes = IF fromProof THEN @ ELSE Tail(hashes),
                                      !.leafIndex = v.leafIndex + subtreeSize],
                            end, fromProof)
                 sized(subtreeSize) ==
                     pushed(subtreeSize,
                            PushSubTree(v.tree, TrailingZeros64(subtreeSize),
                                        Head(hashes)))
             IN  sized(nextSubtreeSize(v.leafIndex, end))
        ELSE [v EXCEPT !.leafIndex = end]

\* consumeUntil of VerifyDiffProof, reading from the proof (fromProof) or
\* from the range hashes
RECURSIVE diffConsumeUntil(_, _, _)
diffConsumeUntil(v, end, fromProof) ==
    LET hashes == IF fromProof THEN v.proof ELSE v.rangeHashes
    IN  IF v.leafIndex # end /\ Len(hashes) > 0
        THEN LET pushed(subtreeSize, r) ==
                     IF r.err # NoErr
                     THEN [v EXCEPT !.err = r.err, !.tree = r.tree]
                     ELSE diffConsumeUntil(
                            [v EXCEPT !.tree = r.tree,
                                      !.proof = IF fromProof THEN Tail(hashes) ELSE @,
                                      !.rangeHashes = IF fromProof THEN @ ELSE Tail(hashes),
                                      !.leafIndex = v.leafIndex + subtreeSize],
                            end, fromProof)
                 sized(subtreeSize) ==
                     pushed(subtreeSize,
                            PushSubTree(v.tree, TrailingZeros64(subtreeSize),
                                        Head(hashes)))
             IN  sized(nextSubtreeSize(v.leafIndex, end))
        ELSE v

RECURSIVE diffRanges(_, _)
diffRanges(v, ranges) ==
    IF Len(ranges) = 0 THEN v
    ELSE LET pushed(v2) ==
                 IF v2.err # NoErr THEN v2 ELSE diffRanges(v2, Tail(ranges))
             consumed(v1) ==
                 IF v1.err # NoErr THEN v1
                 ELSE pushed(diffConsumeUntil(v1, Head(ranges).End, FALSE))
         IN  consumed(diffConsumeUntil(v, Head(ranges).Start, TRUE))

NewDiffVerify(rangeHashes, proof) ==
    [tree |-> New, leafIndex |-> 0, proof |-> proof,
     rangeHashes |-> rangeHashes, err |-> NoErr]

\* the walk of VerifyDiffProof: the tree it has built and the error it holds
\* when it compares the roots
diffWalk(rangeHashes, numLeaves, ranges, proof) ==
    LET walked(v) ==
            IF v.err # NoErr THEN v ELSE diffConsumeUntil(v, numLeaves, TRUE)
    IN  walked(diffRanges(NewDiffVerify(rangeHashes, proof), ranges))

\* VerifyDiffProof reporting a walk without error as success
VerifyDiffProofNoCompare(rangeHashes, numLeaves, ranges, proof, root) ==
    IF ~validRangeSet(ranges)
    THEN [ok |-> FALSE, err |-> PanicIllegalRanges]
    ELSE LET ended(e) == [ok |-> e.err = NoErr, err |-> e.err]
             walked(v) ==
                 IF v.err # NoErr
                 THEN [ok |-> FALSE, err |-> v.err]
                 ELSE ended(diffConsumeUntil(v, numLeaves, TRUE))
         IN  walked(diffRanges(NewDiffVerify(rangeHashes, proof), ranges))

\* VerifyDiffProof turning down a walk that does not end at numLeaves
VerifyDiffProofExactCount(rangeHashes, numLeaves, ranges, proof, root) ==
    IF ~validRangeSet(ranges)
    THEN [ok |-> FALSE, err |-> PanicIllegalRanges]
    ELSE LET ended(e) ==
                 [ok |-> Root(e.tree) = root /\ e.leafIndex = numLeaves,
                  err |-> e.err]
             walked(v) ==
                 IF v.err # NoErr
                 THEN [ok |-> FALSE, err |-> v.err]
                 ELSE ended(diffConsumeUntil(v, numLeaves, TRUE))
         IN  walked(diffRanges(NewDiffVerify(rangeHashes, proof), ranges))

VerifyDiffProof(rangeHashes, numLeaves, ranges, proof, root) ==
    IF ~validRangeSet(ranges)
    THEN [ok |-> FALSE, err |-> PanicIllegalRanges]
    ELSE LET ended(e) == [ok |-> Root(e.tree) = root, err |-> e.err]
             walked(v) ==
                 IF v.err # NoErr
                 THEN [ok |-> FALSE, err |-> v.err]
                 ELSE ended(diffConsumeUntil(v, numLeaves, TRUE))
         IN  walked(diffRanges(NewDiffVerify(rangeHashes, proof), ranges))


(***************************************************************************)
(* SubtreeHashers behind the interface (range.go).  A ReaderSubtreeHasher  *)
(* is the sequence of whole leaves its reader has not handed out yet; a    *)
(* MixedSubtreeHasher holds a CachedSubtreeHasher over node hashes, a      *)
(* ReaderSubtreeHasher over leaf data, and leavesPerNode.                  *)
(***************************************************************************)
RECURSIVE readLeaves(_, _, _)
\* the loop of ReaderSubtreeHasher.NextSubtreeRoot: up to k leaves are read
\* and pushed; the look at currentIndex, which is never negative, has the
\* tree evaluated before the next Push
readLeaves(tree, r, k) ==
    IF k > 0 /\ Len(r) > 0 /\ tree.currentIndex >= 0
    THEN readLeaves(Push(tree, Head(r)), Tail(r), k - 1)
    ELSE [tree |-> tree, r |-> r]

\* ReaderSubtreeHasher.NextSubtreeRoot: the root, the error and the reader
\* after the call
ReaderNextSubtreeRoot(r, subtreeSize) ==
    LET hashed(read) ==
            IF Len(read.tree.stack) = 0
            THEN [root |-> NilDigest, err |-> EOF, r |-> read.r]
            ELSE [root |-> Root(read.tree), err |-> NoErr, r |-> read.r]
    IN  hashed(readLeaves(New, r, subtreeSize))

\* ReaderSubtreeHasher.Skip: a reader that ends early has been read to its
\* end
ReaderSkip(r, n) ==
    IF n <= Len(r)
    THEN [err |-> NoErr, r |-> SubSeq(r, n + 1, Len(r))]
    ELSE [err |-> ErrUnexpectedEOF, r |-> <<>>]

CachedHasher(leafHashes) == [kind |-> "cached", csh |-> leafHashes]

ReaderHasher(leafData) == [kind |-> "reader", rsh |-> leafData]

NewMixedSubtreeHasher(nodeHashes, leafData, leavesPerNode) ==
    [kind |-> "mixed", csh |-> nodeHashes, rsh |-> leafData,
     leavesPerNode |-> leavesPerNode]

\* MixedSubtreeHasher.NextSubtreeRoot: the root, the error and the hasher
\* after the call
MixedNextSubtreeRoot(msh, subtreeSize) ==
    IF subtreeSize >= msh.leavesPerNode
    THEN LET cachedRoot(c) ==
                 [root |-> c.root, err |-> c.err,
                  sh |-> [msh EXCEPT !.csh = c.leafHashes]]
         IN  cachedRoot(CachedNextSubtreeRoot(msh.csh,
                            subtreeSize \div msh.leavesPerNode))
    ELSE LET readRoot(c) ==
                 [root |-> c.root, err |-> c.err, sh |-> [msh EXCEPT !.rsh = c.r]]
         IN  readRoot(ReaderNextSubtreeRoot(msh.rsh, subtreeSize))

\* MixedSubtreeHasher.Skip: the error and the hasher after the call
MixedSkip(msh, n) ==
    IF n >= msh.leavesPerNode
    THEN LET cachedSkip(c) ==
                 [err |-> c.err, sh |-> [msh EXCEPT !.csh = c.leafHashes]]
         IN  cachedSkip(CachedSkip(msh.csh, n \div msh.leavesPerNode))
    ELSE LET readSkip(c) == [err |-> c.err, sh |-> [msh EXCEPT !.rsh = c.r]]
         IN  readSkip(ReaderSkip(msh.rsh, n))

\* SubtreeHasher.NextSubtreeRoot of whichever hasher sh is
NextSubtreeRoot(sh, n) ==
    IF sh.kind = "mixed" THEN MixedNextSubtreeRoot(sh, n)
    ELSE IF sh.kind = "reader"
    THEN LET readRoot(c) ==
                 [root |-> c.root, err |-> c.err, sh |-> [sh EXCEPT !.rsh = c.r]]
         IN  readRoot(ReaderNextSubtreeRoot(sh.rsh, n))
    ELSE LET cachedRoot(c) ==
                 [root |-> c.root, err |-> c.err,
                  sh |-> [sh EXCEPT !.csh = c.leafHashes]]
         IN  cachedRoot(CachedNextSubtreeRoot(sh.csh, n))

\* SubtreeHasher.Skip of whichever hasher sh is
Skip(sh, n) ==
    IF sh.kind = "mixed" THEN MixedSkip(sh, n)
    ELSE IF sh.kind = "reader"
    THEN LET readSkip(c) == [err |-> c.err, sh |-> [sh EXCEPT !.rsh = c.r]]
         IN  readSkip(ReaderSkip(sh.rsh, n))
    ELSE LET cachedSkip(c) ==
                 [err |-> c.err, sh |-> [sh EXCEPT !.csh = c.leafHashes]]
         IN  cachedSkip(CachedSkip(sh.csh, n))

(***************************************************************************)
(* BuildDiffProof (diff.go) over the SubtreeHasher interface.              *)
(***************************************************************************)
RECURSIVE hasherConsumeUntil(_, _)
hasherConsumeUntil(b, end) ==
    IF b.leafIndex # end
    THEN LET consumed(subtreeSize, r) ==
                 LET calls == Append(b.calls,
                                Call("NextSubtreeRoot", b.leafIndex, subtreeSize,
                                     r.err))
                 IN  IF r.err # NoErr
                     THEN [b EXCEPT !.err = r.err, !.sh = r.sh, !.calls = calls]
                     ELSE hasherConsumeUntil(
                            [b EXCEPT !.proof = Append(b.proof, r.root),
                                      !.leafIndex = b.leafIndex + subtreeSize,
                                      !.sh = r.sh, !.calls = calls], end)
             sized(subtreeSize) ==
                 consumed(subtreeSize, NextSubtreeRoot(b.sh, subtreeSize))
         IN  sized(nextSubtreeSize(b.leafIndex, end))
    ELSE b

RECURSIVE hasherSkipUntil(_, _)
hasherSkipUntil(b, end) ==
    IF b.leafIndex # end
    THEN LET skipped(subtreeSize, r) ==
                 LET calls == Append(b.calls,
                                Call("Skip", b.leafIndex, subtreeSize, r.err))
                 IN  IF r.err # NoErr
                     THEN [b EXCEPT !.err = r.err, !.sh = r.sh, !.calls = calls]
                     ELSE hasherSkipUntil(
                            [b EXCEPT !.leafIndex = b.leafIndex + subtreeSize,
                                      !.sh = r.sh, !.calls = calls], end)
             sized(subtreeSize) == skipped(subtreeSize, Skip(b.sh, subtreeSize))
         IN  sized(nextSubtreeSize(b.leafIndex, end))
    ELSE b

RECURSIVE hasherRanges(_, _)
hasherRanges(b, ranges) ==
    IF Len(ranges) = 0 THEN b
    ELSE LET skipped(b2) ==
                 IF b2.err # NoErr THEN b2 ELSE hasherRanges(b2, Tail(ranges))
             consumed(b1) ==
                 IF b1.err # NoErr THEN b1
                 ELSE skipped(hasherSkipUntil(b1, Head(ranges).End))
         IN  consumed(hasherConsumeUntil(b, Head(ranges).Start))

\* BuildDiffProof with any SubtreeHasher: the proof, the error, the calls
\* made to the hasher, and the hasher after the walk
BuildDiffProofWith(ranges, sh, numLeaves) ==
    IF ~validRangeSet(ranges)
    THEN [proof |-> <<>>, err |-> PanicIllegalRanges, calls |-> <<>>, sh |-> sh]
    ELSE LET ended(e) ==
                 [proof |-> e.proof,
                  err |-> IF e.err = EOF THEN NoErr ELSE e.err,
                  calls |-> e.calls, sh |-> e.sh]
             walked(b) ==
                 IF b.err # NoErr
                 THEN [proof |-> <<>>, err |-> b.err, calls |-> b.calls,
                       sh |-> b.sh]
                 ELSE ended(hasherConsumeUntil(b, numLeaves))
         IN  walked(hasherRanges(NewBuild(sh), ranges))

(***************************************************************************)
(* Proof conversion (range.go).  A mapping holds, for each position of a   *)
(* range proof, the position (counted from 0) of the same hash in the      *)
(* proof of Tree.Prove.                                                    *)
(***************************************************************************)
RECURSIVE OnesCount(_)
OnesCount(x) == IF x = 0 THEN 0 ELSE (x % 2) + OnesCount(x \div 2)

Reverse(s) == [k \in 1..Len(s) |-> s[Len(s) - k + 1]]

\* BuildRangeProof
BuildRangeProof(proofStart, proofEnd, sh) ==
    IF proofStart < 0 \/ proofStart > proofEnd \/ proofStart = proofEnd
    THEN [proof |-> <<>>, err |-> PanicIllegalRanges, calls |-> <<>>]
    ELSE BuildMultiRangeProof(<<[Start |-> proofStart, End |-> proofEnd]>>, sh)

\* every bit of the proof index taken for a left-side hash, the limit on
\* the right-side hashes forgotten
RECURSIVE proofMappingLoopNoLimit(_, _, _, _, _)
proofMappingLoopNoLimit(proofSize, numRights, bits, left, right) ==
    IF Len(left) + Len(right) < proofSize
    THEN IF bits % 2 # 0
         THEN proofMappingLoopNoLimit(proofSize, numRights, bits \div 2,
                   Append(left, Len(left) + Len(right)), right)
         ELSE proofMappingLoopNoLimit(proofSize, numRights, bits \div 2,
                   left, Append(right, Len(left) + Len(right)))
    ELSE Reverse(left) \o right

RECURSIVE proofMappingLoopRightFirst(_, _, _, _, _)
\* the right-side positions put ahead of the reversed left-side ones
proofMappingLoopRightFirst(proofSize, numRights, bits, left, right) ==
    IF Len(left) + Len(right) < proofSize
    THEN IF bits % 2 # 0
         THEN proofMappingLoopRightFirst(proofSize, numRights, bits \div 2,
                   Append(left, Len(left) + Len(right)), right)
         ELSE IF Len(right) < numRights
         THEN proofMappingLoopRightFirst(proofSize, numRights, bits \div 2,
                   left, Append(right, Len(left) + Len(right)))
         ELSE proofMappingLoopRightFirst(proofSize, numRights, bits \div 2,
                   left, right)
    ELSE right \o Reverse(left)

RECURSIVE proofMappingLoopOwnCount(_, _, _, _, _)
\* each side numbering its own positions, not the positions of both sides
\* together
proofMappingLoopOwnCount(proofSize, numRights, bits, left, right) ==
    IF Len(left) + Len(right) < proofSize
    THEN IF bits % 2 # 0
         THEN proofMappingLoopOwnCount(proofSize, numRights, bits \div 2,
                   Append(left, Len(left)), right)
         ELSE IF Len(right) < numRights
         THEN proofMappingLoopOwnCount(proofSize, numRights, bits \div 2,
                   left, Append(right, Len(right)))
         ELSE proofMappingLoopOwnCount(proofSize, numRights, bits \div 2,
                   left, right)
    ELSE Reverse(left) \o right

\* the loop of proofMapping over the bits of proofIndex, lowest first; bits
\* is proofIndex shifted right by the loop counter
RECURSIVE proofMappingLoop(_, _, _, _, _)
proofMappingLoop(proofSize, numRights, bits, left, right) ==
    IF Len(left) + Len(right) < proofSize
    THEN IF bits % 2 # 0
         THEN proofMappingLoop(proofSize, numRights, bits \div 2,
                   Append(left, Len(left) + Len(right)), right)
         ELSE IF Len(right) < numRights
         THEN proofMappingLoop(proofSize, numRights, bits \div 2,
                   left, Append(right, Len(left) + Len(right)))
         ELSE proofMappingLoop(proofSize, numRights, bits \div 2, left, right)
    ELSE Reverse(left) \o right

proofMapping(proofSize, proofIndex) ==
    proofMappingLoop(proofSize, proofSize - OnesCount(proofIndex), proofIndex,
                     <<>>, <<>>)

\* the conversion reading the proof in place, without the mapping
ConvertSingleProofToRangeProofInPlace(proof, proofIndex) == proof

\* newproof[i] = proof[j] for every i, j of the mapping
ConvertSingleProofToRangeProof(proof, proofIndex) ==
    LET mapped(mapping) ==
            [i \in 1..Len(proof) |->
                IF i <= Len(mapping) THEN proof[mapping[i] + 1] ELSE NilDigest]
    IN  mapped(proofMapping(Len(proof), proofIndex))

\* oldproof[j] = proof[i] for every i, j of the mapping, in the order of i
ConvertRangeProofToSingleProof(proof, proofIndex) ==
    LET mapped(mapping) ==
            [j \in 1..Len(proof) |->
                LET from == { i \in 1..Len(mapping) : mapping[i] + 1 = j }
                IN  IF from = {} THEN NilDigest
                    ELSE proof[CHOOSE i \in from : \A k \in from : k <= i]]
    IN  mapped(proofMapping(Len(proof), proofIndex))


(***************************************************************************)
(* Inputs.                                                                 *)
(***************************************************************************)
\* the leaf data of a source: n distinct leaves, or n equal leaves (the
\* all-zero data of the tests)
LeafSeqs ==
    { [i \in 1..n |-> IF uniform THEN 0 ELSE i] :
        n \in 0..MaxLeaves, uniform \in BOOLEAN }

LeafHashes(leafData) == [i \in 1..Len(leafData) |-> leafSum(leafData[i])]

LeafRanges(bound) == [Start : 0..bound, End : 0..bound]

\* no range, one range, or two ranges, in any order and of any shape: what
\* makes a range set invalid is one range or two neighbouring ranges
RangeSeqsUpTo(bound) ==
    {<<>>} \cup { <<r>> : r \in LeafRanges(bound) }
           \cup { <<r, s>> : r \in LeafRanges(bound), s \in LeafRanges(bound) }

ValidRangeSets(bound, k) ==
    { rs \in [1..k -> { r \in LeafRanges(bound) : r.Start < r.End }] :
        validRangeSet(rs) }

\* every single range within [0, MaxLeaves], every valid range set within
\* [0, MaxMultiEnd], and every sequence of at most two ranges, valid or not,
\* within [0, MaxBound]
RangeSets ==
    ValidRangeSets(MaxLeaves, 1)
    \cup UNION { ValidRangeSets(MaxMultiEnd, k) : k \in 0..MaxRanges }
    \cup RangeSeqsUpTo(MaxBound)

\* bytesRoot of the tests: the root of a Tree fed every leaf
TreeRoot(leafHashes) ==
    Root(pushLeafHashes(New, leafHashes, Len(leafHashes)).tree)

RECURSIVE RangeLeafHashes(_, _)
\* the leaf hashes within the ranges, in order, as far as the source has them
RangeLeafHashes(leafHashes, ranges) ==
    IF Len(ranges) = 0 THEN <<>>
    ELSE LET r  == Head(ranges)
             hi == IF r.End < Len(leafHashes) THEN r.End ELSE Len(leafHashes)
         IN  SubSeq(leafHashes, r.Start + 1, hi)
             \o RangeLeafHashes(leafHashes, Tail(ranges))

(***************************************************************************)
(* The state: a prover holding the leaves builds a proof for a range set,  *)
(* the proof travels to a verifier (and may be altered on the way), and    *)
(* the verifier checks it against a root.                                  *)
(***************************************************************************)
VARIABLES
    phase,      \* "idle", "built", "verified", or "sized"
    kind,       \* the proof system in use: "range" or "diff"
    leaves,     \* the leaf data of the prover's source
    ranges,     \* the range set of the proof
    numLeaves,  \* the leaf count a diff proof is built and verified for
    built,      \* what the builder returned: proof, err, calls
    proof,      \* the proof as it reaches the verifier
    tamper,     \* what was done to the proof on the way
    root,       \* the root the verifier checks against
    verdict,    \* what the verifier returned: ok, err
    sized,      \* a call of nextSubtreeSize: start, end, size
    stk,        \* a Stack
    tr,         \* a Tree
    fed,        \* the leaf data appended to stk and tr since they were new
    cached,     \* whether tr took some of its leaves as a subtree digest
    lastCall,   \* the last call made on tr: op, arg, err
    proved,     \* what the last call of Prove returned
    conv,       \* a run of the proof converters
    modif,      \* a proof of modification: one diff proof, two roots
    agree,      \* one root given to the range verifier and the diff verifier
    mixed,      \* a diff proof built from a MixedSubtreeHasher
    comp        \* a call of CompressLeafHashes

proofVars == <<phase, kind, leaves, ranges, numLeaves, built, proof, tamper, root, verdict, sized>>

objVars == <<stk, tr, fed, cached, lastCall, proved, conv>>

runVars == <<modif, agree, mixed, comp>>

vars == <<proofVars, objVars, runVars>>

NoBuild == [proof |-> <<>>, err |-> NoErr, calls |-> <<>>]
NoTamper == [op |-> "none", pos |-> 0]
NoVerdict == [ok |-> FALSE, err |-> NoErr]
NoSize == [start |-> 0, end |-> 0, size |-> 0]
NoCall == [op |-> "none", arg |-> 0, err |-> NoErr]
NoProof == [panic |-> NoErr, root |-> NilDigest, base |-> NilDigest,
            proofSet |-> <<>>, proofIndex |-> 0, numLeaves |-> 0]
NoConv == [how |-> "none", n |-> 0, idx |-> 0, single |-> <<>>,
           range |-> <<>>, toRange |-> <<>>, toSingle |-> <<>>,
           backSingle |-> <<>>, backRange |-> <<>>]
NoModif == [how |-> "none"]
NoAgree == [how |-> "none"]
NoMixed == [how |-> "none"]
NoComp == [how |-> "none"]

Init ==
    /\ phase = "idle"
    /\ kind = "range"
    /\ leaves = <<>>
    /\ ranges = <<>>
    /\ numLeaves = 0
    /\ built = NoBuild
    /\ proof = <<>>
    /\ tamper = NoTamper
    /\ root = NilDigest
    /\ verdict = NoVerdict
    /\ sized = NoSize
    /\ stk = NewStack
    /\ tr = New
    /\ fed = <<>>
    /\ cached = FALSE
    /\ lastCall = NoCall
    /\ proved = NoProof
    /\ conv = NoConv
    /\ modif = NoModif
    /\ agree = NoAgree
    /\ mixed = NoMixed
    /\ comp = NoComp

\* the prover calls BuildMultiRangeProof with a CachedSubtreeHasher over its
\* leaves
Build ==
    /\ phase = "idle"
    /\ \E ls \in LeafSeqs, rs \in RangeSets :
         /\ leaves' = ls
         /\ ranges' = rs
         /\ built' = BuildMultiRangeProof(rs, LeafHashes(ls))
         /\ proof' = built'.proof
    /\ phase' = "built"
    /\ kind' = "range"
    /\ UNCHANGED <<numLeaves, tamper, root, verdict, sized>>
    /\ UNCHANGED objVars
    /\ UNCHANGED runVars

RemoveAt(s, i) == SubSeq(s, 1, i - 1) \o SubSeq(s, i + 1, Len(s))
InsertAt(s, i, e) == SubSeq(s, 1, i - 1) \o <<e>> \o SubSeq(s, i, Len(s))

\* the digests an altered proof may contain
TamperDigests == {JunkDigest} \cup { proof[i] : i \in 1..Len(proof) }

\* one digest of a successfully built proof is changed, inserted or deleted
Tamper ==
    /\ phase = "built"
    /\ built.err = NoErr
    /\ Len(leaves) <= MaxTamperLeaves
    /\ tamper = NoTamper
    /\ \/ \E i \in 1..Len(proof), d \in TamperDigests :
            /\ d # proof[i]
            /\ proof' = [proof EXCEPT ![i] = d]
            /\ tamper' = [op |-> "change", pos |-> i]
       \/ \E i \in 1..(Len(proof) + 1), d \in TamperDigests :
            /\ proof' = InsertAt(proof, i, d)
            /\ tamper' = [op |-> "insert", pos |-> i]
       \/ \E i \in 1..Len(proof) :
            /\ proof' = RemoveAt(proof, i)
            /\ tamper' = [op |-> "delete", pos |-> i]
    /\ UNCHANGED <<phase, kind, leaves, ranges, numLeaves, built, root, verdict, sized>>
    /\ UNCHANGED objVars
    /\ UNCHANGED runVars

\* the roots a verifier may hold: the true root of the leaves, or another
RootCandidates(leafData) == {TreeRoot(LeafHashes(leafData)), JunkDigest}

\* the verifier calls VerifyMultiRangeProof with a CachedLeafHasher over the
\* leaf hashes of the ranges
Verify ==
    /\ phase = "built"
    /\ kind = "range"
    /\ \E rt \in RootCandidates(leaves) :
         /\ root' = rt
         /\ verdict' = VerifyMultiRangeProof(
                          RangeLeafHashes(LeafHashes(leaves), ranges),
                          ranges, proof, rt)
    /\ phase' = "verified"
    /\ UNCHANGED <<kind, leaves, ranges, numLeaves, built, proof, tamper, sized>>
    /\ UNCHANGED objVars
    /\ UNCHANGED runVars

\* the exchange is over; prover and verifier drop their objects
Discard ==
    /\ phase \in {"verified", "sized"}
    /\ phase' = "idle"
    /\ kind' = "range"
    /\ leaves' = <<>>
    /\ ranges' = <<>>
    /\ numLeaves' = 0
    /\ built' = NoBuild
    /\ proof' = <<>>
    /\ tamper' = NoTamper
    /\ root' = NilDigest
    /\ verdict' = NoVerdict
    /\ sized' = NoSize
    /\ UNCHANGED objVars
    /\ UNCHANGED runVars

Next == Build \/ Tamper \/ Verify \/ Discard

Spec == Init /\ [][Next]_vars

(***************************************************************************)
(* Diff proofs.                                                            *)
(***************************************************************************)
\* the leaf counts a diff proof is asked for over a source of n leaves
LeafCounts(n) == { k \in 0..MaxLeaves : k \in {n - 1, n, n + 1} }

\* the prover calls BuildDiffProof with a CachedSubtreeHasher over its leaves
BuildDiff ==
    /\ phase = "idle"
    /\ \E ls \in LeafSeqs, rs \in RangeSets :
         \E k \in LeafCounts(Len(ls)) :
           /\ leaves' = ls
           /\ ranges' = rs
           /\ numLeaves' = k
           /\ built' = BuildDiffProof(rs, LeafHashes(ls), k)
           /\ proof' = built'.proof
    /\ phase' = "built"
    /\ kind' = "diff"
    /\ UNCHANGED <<tamper, root, verdict, sized>>
    /\ UNCHANGED objVars
    /\ UNCHANGED runVars

\* the verifier compresses the leaf hashes of the ranges and calls
\* VerifyDiffProof; a failure of CompressLeafHashes ends the verification
VerifyDiff ==
    /\ phase = "built"
    /\ kind = "diff"
    /\ \E rt \in RootCandidates(leaves) :
         LET verified(c) ==
                 IF c.err # NoErr
                 THEN [ok |-> FALSE, err |-> c.err]
                 ELSE VerifyDiffProof(c.compressed, numLeaves, ranges, proof, rt)
         IN  /\ root' = rt
             /\ verdict' = verified(CompressLeafHashes(ranges,
                               RangeLeafHashes(LeafHashes(leaves), ranges)))
    /\ phase' = "verified"
    /\ UNCHANGED <<kind, leaves, ranges, numLeaves, built, proof, tamper, sized>>
    /\ UNCHANGED objVars
    /\ UNCHANGED runVars

NextDiff == BuildDiff \/ Tamper \/ VerifyDiff \/ Discard

SpecDiff == Init /\ [][NextDiff]_vars


(***************************************************************************)
(* nextSubtreeSize on its own.                                             *)
(***************************************************************************)
SizeSubtree ==
    /\ phase = "idle"
    /\ \E start \in 0..(MaxEnd - 1) :
         \E end \in (start + 1)..MaxEnd :
           sized' = [start |-> start, end |-> end,
                     size |-> nextSubtreeSize(start, end)]
    /\ phase' = "sized"
    /\ UNCHANGED <<kind, leaves, ranges, numLeaves, built, proof, tamper, root, verdict>>
    /\ UNCHANGED objVars
    /\ UNCHANGED runVars

NextSize == SizeSubtree \/ Discard

SpecSize == Init /\ [][NextSize]_vars


(***************************************************************************)
(* A Stack and a Tree fed the same leaves: the Stack takes the leaf hash   *)
(* through AppendNode, the Tree the leaf data through Push.                *)
(***************************************************************************)
\* the data of the next leaf: all-zero data, or data no other leaf has
NextLeafData == {0, Len(fed) + 1}

StackAppend ==
    /\ Len(fed) < MaxStackNodes
    /\ \E d \in NextLeafData :
         /\ stk' = AppendNode(stk, leafSum(d))
         /\ tr' = Push(tr, d)
         /\ fed' = Append(fed, d)
    /\ UNCHANGED <<cached, lastCall, proved, conv>>
    /\ UNCHANGED proofVars
    /\ UNCHANGED runVars

\* the Stack is reset, and the Tree replaced by a new one
StackReset ==
    /\ stk' = Reset(stk)
    /\ tr' = New
    /\ fed' = <<>>
    /\ UNCHANGED <<cached, lastCall, proved, conv>>
    /\ UNCHANGED proofVars
    /\ UNCHANGED runVars

NextStack == StackAppend \/ StackReset

SpecStack == Init /\ [][NextStack]_vars


(***************************************************************************)
(* A Tree on its own: SetIndex, Push, PushSubTree and Prove in any order.  *)
(* Leaf k of the tree carries the data k + 1.                              *)
(***************************************************************************)
\* the data of the leaves at positions from .. from + count - 1
LeafDataAt(from, count) == [k \in 1..count |-> from + k]

TreeCall(op, arg, err) == [op |-> op, arg |-> arg, err |-> err]

TreeSetIndex ==
    /\ \E i \in 0..MaxTreeLeaves :
         LET called(r) ==
                 /\ tr' = r.tree
                 /\ lastCall' = TreeCall("SetIndex", i, r.err)
         IN  called(SetIndex(tr, i))
    /\ proved' = NoProof
    /\ UNCHANGED <<stk, fed, cached, conv>>
    /\ UNCHANGED proofVars
    /\ UNCHANGED runVars

TreePush ==
    /\ tr.currentIndex < MaxTreeLeaves
    /\ tr' = Push(tr, tr.currentIndex + 1)
    /\ fed' = Append(fed, tr.currentIndex + 1)
    /\ lastCall' = TreeCall("Push", 0, NoErr)
    /\ proved' = NoProof
    /\ UNCHANGED <<stk, cached, conv>>
    /\ UNCHANGED proofVars
    /\ UNCHANGED runVars

\* the caller pushes the root of the next 2^height leaves, built with a Tree
\* of its own
TreePushSubTree ==
    /\ \E height \in 0..Len64(MaxTreeLeaves) :
         /\ tr.currentIndex + 2 ^ height <= MaxTreeLeaves
         /\ LET data == LeafDataAt(tr.currentIndex, 2 ^ height)
                called(r) ==
                    /\ tr' = r.tree
                    /\ lastCall' = TreeCall("PushSubTree", height, r.err)
                    /\ fed' = IF r.err = NoErr THEN fed \o data ELSE fed
                    /\ cached' = IF r.err = NoErr THEN TRUE ELSE cached
            IN  called(PushSubTree(tr, height, TreeRoot(LeafHashes(data))))
    /\ proved' = NoProof
    /\ UNCHANGED <<stk, conv>>
    /\ UNCHANGED proofVars
    /\ UNCHANGED runVars

TreeProve ==
    /\ proved' = Prove(tr)
    /\ lastCall' = TreeCall("Prove", 0, proved'.panic)
    /\ UNCHANGED <<stk, tr, fed, cached, conv>>
    /\ UNCHANGED proofVars
    /\ UNCHANGED runVars

\* the Tree is dropped and a new one created
TreeNew ==
    /\ tr' = New
    /\ fed' = <<>>
    /\ cached' = FALSE
    /\ lastCall' = NoCall
    /\ proved' = NoProof
    /\ UNCHANGED <<stk, conv>>
    /\ UNCHANGED proofVars
    /\ UNCHANGED runVars

NextTree == TreeSetIndex \/ TreePush \/ TreePushSubTree \/ TreeProve \/ TreeNew

SpecTree == Init /\ [][NextTree]_vars


(***************************************************************************)
(* A Stack and a Tree fed the same leaves, the Tree taking some of them as *)
(* subtree digests: Push, PushSubTree (accepted or not) and Reset in any   *)
(* order.                                                                  *)
(***************************************************************************)
RECURSIVE appendNodes(_, _)
\* AppendNode for every node, in order
appendNodes(s, nodes) ==
    IF Len(nodes) # 0 /\ s.used >= 0
    THEN appendNodes(AppendNode(s, Head(nodes)), Tail(nodes))
    ELSE s

\* the next leaf is pushed to the Tree and its hash appended to the Stack
AppendLeaf ==
    /\ Len(fed) < MaxHeightsLeaves
    /\ stk' = AppendNode(stk, leafSum(Len(fed) + 1))
    /\ tr' = Push(tr, Len(fed) + 1)
    /\ fed' = Append(fed, Len(fed) + 1)
    /\ lastCall' = TreeCall("Push", 0, NoErr)
    /\ UNCHANGED <<cached, proved, conv>>
    /\ UNCHANGED proofVars
    /\ UNCHANGED runVars

\* the Tree is given the root of the next 2^height leaves; if it takes it,
\* the Stack is given the leaves one by one
AppendSubTree ==
    /\ \E height \in 0..Len64(MaxHeightsLeaves) :
         /\ Len(fed) + 2 ^ height <= MaxHeightsLeaves
         /\ LET data == LeafDataAt(Len(fed), 2 ^ height)
                called(r) ==
                    /\ tr' = r.tree
                    /\ lastCall' = TreeCall("PushSubTree", height, r.err)
                    /\ fed' = IF r.err = NoErr THEN fed \o data ELSE fed
                    /\ stk' = IF r.err = NoErr
                              THEN appendNodes(stk, LeafHashes(data))
                              ELSE stk
            IN  called(PushSubTree(tr, height, TreeRoot(LeafHashes(data))))
    /\ UNCHANGED <<cached, proved, conv>>
    /\ UNCHANGED proofVars
    /\ UNCHANGED runVars

NextHeights == AppendLeaf \/ AppendSubTree \/ StackReset

SpecHeights == Init /\ [][NextHeights]_vars


(***************************************************************************)
(* The proof converters: on the proof Tree.Prove gives for a leaf and the  *)
(* proof BuildRangeProof gives for the same leaf, and on any sequence of   *)
(* digests with any index.                                                 *)
(***************************************************************************)
RECURSIVE pushAll(_, _)
\* every leaf pushed into the tree; the look at currentIndex, which is never
\* negative, has the tree evaluated before the next Push
pushAll(t, leafData) ==
    IF Len(leafData) # 0 /\ t.currentIndex >= 0
    THEN pushAll(Push(t, Head(leafData)), Tail(leafData))
    ELSE t

\* buildOldProof of the tests: the proof set of Tree.Prove without its first
\* entry
buildOldProof(leafData, proofIndex) ==
    Tail(Prove(pushAll(SetIndex(New, proofIndex).tree, leafData)).proofSet)

\* buildNewProof of the tests
buildNewProof(leafData, proofIndex) ==
    BuildRangeProof(proofIndex, proofIndex + 1, LeafHashes(leafData)).proof

Conversion(how, n, idx, single, range) ==
    [how |-> how, n |-> n, idx |-> idx, single |-> single, range |-> range,
     toRange |-> ConvertSingleProofToRangeProof(single, idx),
     toSingle |-> ConvertRangeProofToSingleProof(range, idx),
     backSingle |-> ConvertRangeProofToSingleProof(
                        ConvertSingleProofToRangeProof(single, idx), idx),
     backRange |-> ConvertSingleProofToRangeProof(
                        ConvertRangeProofToSingleProof(range, idx), idx)]

\* the two proofs of one leaf of a tree are built and converted; a behaviour
\* holds one conversion
ConvertBuilt ==
    /\ conv = NoConv
    /\ \E n \in 1..MaxConvLeaves :
         \E idx \in 0..(n - 1) :
           conv' = Conversion("built", n, idx,
                              buildOldProof(LeafDataAt(0, n), idx),
                              buildNewProof(LeafDataAt(0, n), idx))
    /\ UNCHANGED <<stk, tr, fed, cached, lastCall, proved>>
    /\ UNCHANGED proofVars
    /\ UNCHANGED runVars

\* a sequence of digests that need not be a proof is converted, with an
\* index that need not fit it
ConvertAny ==
    /\ conv = NoConv
    /\ \E size \in 0..MaxProofSize :
         \E idx \in 0..MaxConvIndex :
           conv' = Conversion("any", size, idx,
                              LeafHashes(LeafDataAt(0, size)),
                              LeafHashes(LeafDataAt(0, size)))
    /\ UNCHANGED <<stk, tr, fed, cached, lastCall, proved>>
    /\ UNCHANGED proofVars
    /\ UNCHANGED runVars

NextConvert == ConvertBuilt \/ ConvertAny

SpecConvert == Init /\ [][NextConvert]_vars


(***************************************************************************)
(* Proofs of modification: a diff proof is built once over the old leaves  *)
(* and verified against the old root with the old range hashes and         *)
(* against the new root with the edited range hashes.                      *)
(***************************************************************************)
RECURSIVE RangePositions(_)
\* the leaf positions within the ranges, in order
RangePositions(rs) ==
    IF Len(rs) = 0 THEN <<>>
    ELSE [k \in 1..(Head(rs).End - Head(rs).Start) |-> Head(rs).Start + k - 1]
         \o RangePositions(Tail(rs))

\* the leaf hashes with the leaves within the ranges taken from rangeHashes
WithRangeLeaves(leafHashes, rs, rangeHashes) ==
    LET placed(pos) ==
            [p \in 1..Len(leafHashes) |->
                IF \E k \in 1..Len(pos) : pos[k] = p - 1
                THEN rangeHashes[CHOOSE k \in 1..Len(pos) : pos[k] = p - 1]
                ELSE leafHashes[p]]
    IN  placed(RangePositions(rs))

Edits == {"replace", "reverse", "rotate"}

\* the range hashes after an edit within the ranges: every leaf replaced by
\* new data, or the leaves swapped among their positions
EditRangeHashes(edit, rangeHashes, n) ==
    IF edit = "replace"
    THEN [k \in 1..Len(rangeHashes) |-> leafSum(n + k)]
    ELSE IF edit = "reverse" THEN Reverse(rangeHashes)
    ELSE IF Len(rangeHashes) = 0 THEN rangeHashes
    ELSE Append(Tail(rangeHashes), Head(rangeHashes))

\* VerifyDiffProof fed CompressLeafHashes of the range hashes
verifyCompressed(rs, rangeHashes, n, p, rt) ==
    LET verified(c) ==
            IF c.err # NoErr THEN [ok |-> FALSE, err |-> c.err]
            ELSE VerifyDiffProof(c.compressed, n, rs, p, rt)
    IN  verified(CompressLeafHashes(rs, rangeHashes))

\* the proof built over the old leaves, and the two verifications
Modification(how, oldHashes, oldRanges, n, newHashes, newRanges) ==
    LET sent(b) ==
            [how |-> how, n |-> n, ranges |-> oldRanges, err |-> b.err,
             proof |-> b.proof,
             oldRoot |-> TreeRoot(oldHashes), newRoot |-> TreeRoot(newHashes),
             changed |-> newHashes # oldHashes,
             old |-> verifyCompressed(oldRanges,
                        RangeLeafHashes(oldHashes, oldRanges), n, b.proof,
                        TreeRoot(oldHashes)),
             new |-> verifyCompressed(newRanges,
                        RangeLeafHashes(newHashes, newRanges), n, b.proof,
                        TreeRoot(newHashes)),
             stale |-> verifyCompressed(oldRanges,
                        RangeLeafHashes(oldHashes, oldRanges), n, b.proof,
                        TreeRoot(newHashes))]
    IN  sent(BuildDiffProof(oldRanges, oldHashes, n))

\* the leaves within the ranges are replaced or swapped among themselves
ModifyInPlace ==
    /\ modif = NoModif
    /\ \E n \in 1..MaxModLeaves, k \in 0..MaxRanges, edit \in Edits :
         \E rs \in ValidRangeSets(n, k) :
           LET edited(oldHashes) ==
                   Modification(edit, oldHashes, rs, n,
                       WithRangeLeaves(oldHashes, rs,
                           EditRangeHashes(edit,
                               RangeLeafHashes(oldHashes, rs), n)),
                       rs)
           IN  modif' = edited(LeafHashes(LeafDataAt(0, n)))
    /\ UNCHANGED <<agree, mixed, comp>>
    /\ UNCHANGED proofVars
    /\ UNCHANGED objVars

ScenarioLeaves == 12

ScenarioRanges ==
    <<[Start |-> 6, End |-> 7], [Start |-> 7, End |-> 8],
      [Start |-> 10, End |-> 11], [Start |-> 11, End |-> 12]>>

\* leafHashes with the entries at positions i and j (from 0) exchanged
Swap(leafHashes, i, j) ==
    [leafHashes EXCEPT ![i + 1] = leafHashes[j + 1],
                       ![j + 1] = leafHashes[i + 1]]

\* leafHashes without its last entry
Trim(leafHashes) == SubSeq(leafHashes, 1, Len(leafHashes) - 1)

\* the edit of TestProofOfModification: Swap(6, 11), Trim, Swap(7, 10), and
\* two leaves appended; the range [12, 13) is added for the appended data
ModifyScenario ==
    /\ modif = NoModif
    /\ LET edited(oldHashes) ==
               Modification("scenario", oldHashes, ScenarioRanges,
                   ScenarioLeaves,
                   Swap(Trim(Swap(oldHashes, 6, 11)), 7, 10)
                       \o <<leafSum(ScenarioLeaves + 1),
                            leafSum(ScenarioLeaves + 2)>>,
                   Append(ScenarioRanges,
                          [Start |-> ScenarioLeaves,
                           End |-> ScenarioLeaves + 1]))
       IN  modif' = edited(LeafHashes(LeafDataAt(0, ScenarioLeaves)))
    /\ UNCHANGED <<agree, mixed, comp>>
    /\ UNCHANGED proofVars
    /\ UNCHANGED objVars

NextModify == ModifyInPlace \/ ModifyScenario

SpecModify == Init /\ [][NextModify]_vars


(***************************************************************************)
(* CompressLeafHashes on its own: the source holds the leaf hashes of the  *)
(* ranges, and extra more leaf hashes after them.                          *)
(***************************************************************************)
Compression(n, rs, extra, sh) ==
    LET done(c) ==
            [how |-> "compressed", n |-> n, ranges |-> rs, extra |-> extra,
             source |-> sh,
             err |-> c.err,
             compressed |-> IF c.err # NoErr THEN <<>> ELSE c.compressed,
             rest |-> c.sh,
             returned |-> CompressLeafHashes(rs, sh)]
    IN  done(compressRanges([compressed |-> <<>>, sh |-> sh, err |-> NoErr],
                            rs))

Compress ==
    /\ comp = NoComp
    /\ \E n \in 1..MaxCompLeaves, k \in 0..MaxRanges, extra \in {0, 1} :
         \E rs \in ValidRangeSets(n, k) :
           comp' = Compression(n, rs, extra,
                      RangeLeafHashes(LeafHashes(LeafDataAt(0, n)), rs)
                          \o LeafHashes(LeafDataAt(n, extra)))
    /\ UNCHANGED <<modif, agree, mixed>>
    /\ UNCHANGED proofVars
    /\ UNCHANGED objVars

NextCompress == Compress

SpecCompress == Init /\ [][NextCompress]_vars


(***************************************************************************)
(* The two verifiers side by side: the same leaves, the same range set and *)
(* the same candidate root, each verifier with the proof of its builder.   *)
(***************************************************************************)
\* the roots given to both verifiers: the root of the leaves, the root of
\* the leaves without the last one, no root, and a digest of no tree
AgreeRoots(leafHashes) ==
    {TreeRoot(leafHashes), TreeRoot(Trim(leafHashes)), NilDigest, JunkDigest}

Agreement(leafHashes, rs, rt) ==
    LET verified(rb, db) ==
            [how |-> "verified", n |-> Len(leafHashes), ranges |-> rs,
             root |-> rt, isRoot |-> rt = TreeRoot(leafHashes),
             rangeErr |-> rb.err, diffErr |-> db.err,
             rangeProof |-> rb.proof, diffProof |-> db.proof,
             range |-> VerifyMultiRangeProof(RangeLeafHashes(leafHashes, rs),
                                             rs, rb.proof, rt),
             diff |-> verifyCompressed(rs, RangeLeafHashes(leafHashes, rs),
                                       Len(leafHashes), db.proof, rt)]
    IN  verified(BuildMultiRangeProof(rs, leafHashes),
                 BuildDiffProof(rs, leafHashes, Len(leafHashes)))

VerifyBoth ==
    /\ agree = NoAgree
    /\ \E n \in 1..MaxAgreeLeaves, k \in 1..MaxRanges :
         \E rs \in ValidRangeSets(n, k) :
           \E rt \in AgreeRoots(LeafHashes(LeafDataAt(0, n))) :
             agree' = Agreement(LeafHashes(LeafDataAt(0, n)), rs, rt)
    /\ UNCHANGED <<modif, mixed, comp>>
    /\ UNCHANGED proofVars
    /\ UNCHANGED objVars

NextAgree == VerifyBoth

SpecAgree == Init /\ [][NextAgree]_vars


(***************************************************************************)
(* The MixedSubtreeHasher: single requests, and diff proofs built from it  *)
(* beside diff proofs built from a ReaderSubtreeHasher over all leaves.    *)
(***************************************************************************)
\* the roots of the count groups of leavesPerNode leaves from position pos
NodeHashes(leafData, pos, count, leavesPerNode) ==
    [i \in 1..count |->
        TreeRoot(LeafHashes(SubSeq(leafData, pos + (i - 1) * leavesPerNode + 1,
                                   pos + i * leavesPerNode)))]

RECURSIVE proofNodes(_, _, _)
\* the node hashes a MixedSubtreeHasher is given for a walk: the groups
\* under the requests of leavesPerNode leaves or more, as the tests pick them
proofNodes(calls, leafData, leavesPerNode) ==
    IF Len(calls) = 0 THEN <<>>
    ELSE (IF Head(calls).n >= leavesPerNode
          THEN NodeHashes(leafData, Head(calls).pos,
                          Head(calls).n \div leavesPerNode, leavesPerNode)
          ELSE <<>>)
         \o proofNodes(Tail(calls), leafData, leavesPerNode)

RECURSIVE proofData(_, _, _)
\* the leaves its reader is given: those under the smaller requests
proofData(calls, leafData, leavesPerNode) ==
    IF Len(calls) = 0 THEN <<>>
    ELSE (IF Head(calls).n >= leavesPerNode THEN <<>>
          ELSE SubSeq(leafData, Head(calls).pos + 1,
                      Head(calls).pos + Head(calls).n))
         \o proofData(Tail(calls), leafData, leavesPerNode)

\* one request made to a MixedSubtreeHasher that holds every node hash and
\* every leaf of the tree
MixedRequest ==
    /\ mixed = NoMixed
    /\ \E leavesPerNode \in 1..MaxLeavesPerNode, size \in 1..MaxMixedLeaves,
          op \in {"NextSubtreeRoot", "Skip"} :
         LET leafData == LeafDataAt(0, MaxMixedLeaves)
             served(msh, r) ==
                 [how |-> "called", op |-> op, size |-> size,
                  leavesPerNode |-> leavesPerNode, err |-> r.err,
                  root |-> IF op = "Skip" THEN NilDigest ELSE r.root,
                  nodesUsed |-> Len(msh.csh) - Len(r.sh.csh),
                  leavesUsed |-> Len(msh.rsh) - Len(r.sh.rsh)]
             called(msh) ==
                 served(msh, IF op = "Skip" THEN Skip(msh, size)
                             ELSE NextSubtreeRoot(msh, size))
         IN  mixed' = called(NewMixedSubtreeHasher(
                          NodeHashes(leafData, 0,
                                     MaxMixedLeaves \div leavesPerNode,
                                     leavesPerNode),
                          leafData, leavesPerNode))
    /\ UNCHANGED <<modif, agree, comp>>
    /\ UNCHANGED proofVars
    /\ UNCHANGED objVars

\* BuildDiffProof from a ReaderSubtreeHasher over all leaves, and from a
\* MixedSubtreeHasher given the node hashes and the leaves of the same walk
MixedBuild ==
    /\ mixed = NoMixed
    /\ \E n \in 1..MaxMixedLeaves, leavesPerNode \in 1..MaxLeavesPerNode,
          k \in 0..MaxRanges :
         \E rs \in ValidRangeSets(n, k) :
           LET leafData == LeafDataAt(0, n)
               both(rb, mb) ==
                   [how |-> "built", n |-> n, ranges |-> rs,
                    leavesPerNode |-> leavesPerNode,
                    aligned |-> \A i \in 1..Len(rb.calls) :
                                  rb.calls[i].n >= leavesPerNode =>
                                      rb.calls[i].pos % leavesPerNode = 0,
                    nodes |-> proofNodes(rb.calls, leafData, leavesPerNode),
                    readerErr |-> rb.err, readerProof |-> rb.proof,
                    err |-> mb.err, proof |-> mb.proof, left |-> mb.sh]
               walked(rb) ==
                   both(rb, BuildDiffProofWith(rs,
                          NewMixedSubtreeHasher(
                              proofNodes(rb.calls, leafData, leavesPerNode),
                              proofData(rb.calls, leafData, leavesPerNode),
                              leavesPerNode), n))
           IN  mixed' = walked(BuildDiffProofWith(rs, ReaderHasher(leafData), n))
    /\ UNCHANGED <<modif, agree, comp>>
    /\ UNCHANGED proofVars
    /\ UNCHANGED objVars

NextMixed == MixedRequest \/ MixedBuild

SpecMixed == Init /\ [][NextMixed]_vars


(***************************************************************************)
(* The two verifiers on arbitrary input: any valid range set, a proof of   *)
(* any length, any number of leaf hashes or range hashes (too few and too  *)
(* many), any number of leaves, and a root that is or is not the root of   *)
(* the tree the walk builds.                                               *)
(***************************************************************************)
\* digests of an arbitrary proof and of arbitrary range hashes
ProofDigests(count) == [k \in 1..count |-> leafSum(-1 - k)]

HashDigests(count) == [k \in 1..count |-> leafSum(k)]

Verdicts(rs, n, p, h, rt) ==
    [how |-> "any", ranges |-> rs, numLeaves |-> n, proof |-> p, hashes |-> h,
     root |-> rt,
     range |-> VerifyMultiRangeProof(h, rs, p, rt),
     diff |-> VerifyDiffProof(h, n, rs, p, rt)]

\* the roots the verifiers are given: the root of the tree either walk
\* builds (VerifyMultiRangeProof walks for a non-empty range set only), and
\* a digest of no tree
VerdictRoots(rs, n, p, h) ==
    { Root(diffWalk(h, n, rs, p).tree), JunkDigest }
    \cup (IF Len(rs) = 0 THEN {} ELSE { Root(verifyWalk(h, rs, p).tree) })

VerifyAny ==
    /\ agree = NoAgree
    /\ \E k \in 0..MaxRanges, n \in 0..MaxVerdictEnd,
          pl \in 0..MaxVerdictProof, hl \in 0..MaxVerdictHashes :
         \E rs \in ValidRangeSets(MaxVerdictEnd, k) :
           \E rt \in VerdictRoots(rs, n, ProofDigests(pl), HashDigests(hl)) :
             agree' = Verdicts(rs, n, ProofDigests(pl), HashDigests(hl), rt)
    /\ UNCHANGED <<modif, mixed, comp>>
    /\ UNCHANGED proofVars
    /\ UNCHANGED objVars

NextVerdict == VerifyAny

SpecVerdict == Init /\ [][NextVerdict]_vars


(***************************************************************************)
(* Reference notions the properties are stated with.                       *)
(***************************************************************************)
\* sorted, non-overlapping ranges, none of them empty or inverted
SortedDisjoint(rs) ==
    /\ \A i \in 1..Len(rs) : rs[i].Start < rs[i].End
    /\ \A i, j \in 1..Len(rs) : i < j => rs[i].End <= rs[j].Start

\* every range ends within the first n leaves
Within(rs, n) == \A i \in 1..Len(rs) : rs[i].End <= n

IsPowerOfTwo(p) == \E k \in 0..30 : p = 2 ^ k

\* the largest power of two strictly below n, for n >= 2
SplitPoint(n) == 2 ^ (Len64(n - 1) - 1)

\* the Merkle root of a non-empty sequence of leaf hashes: a single hash is
\* its own root, otherwise the left subtree covers the largest power of two
\* strictly below the number of leaves
RECURSIVE MerkleRoot(_)
MerkleRoot(hashes) ==
    IF Len(hashes) = 0 THEN NilDigest
    ELSE IF Len(hashes) = 1 THEN hashes[1]
    ELSE LET k == SplitPoint(Len(hashes))
         IN  <<MerkleRoot(SubSeq(hashes, 1, k)),
               MerkleRoot(SubSeq(hashes, k + 1, Len(hashes)))>>

TrueRoot == MerkleRoot(LeafHashes(leaves))

Accepted == [ok |-> TRUE, err |-> NoErr]

\* an honest exchange over a valid range set that the source covers
HonestRun(k) ==
    /\ phase = "verified"
    /\ kind = k
    /\ tamper = NoTamper
    /\ Len(leaves) >= 1
    /\ SortedDisjoint(ranges)
    /\ Within(ranges, Len(leaves))

(***************************************************************************)
(* C1: for n >= 1 leaves and a valid range set within them,                *)
(* BuildMultiRangeProof succeeds and VerifyMultiRangeProof, given its      *)
(* proof, the leaf hashes of the ranges and the true Merkle root, returns  *)
(* (true, no error).                                                       *)
(***************************************************************************)
C1_BuildVerifyRoundTrip ==
    (HonestRun("range") /\ root = TrueRoot)
        => (built.err = NoErr /\ verdict = Accepted)

C1_Witness ==
    /\ HonestRun("range") /\ root = TrueRoot
    /\ Len(leaves) = 9
    /\ Len(ranges) = 2
    /\ Len(proof) >= 4
    /\ verdict = Accepted

(***************************************************************************)
(* C2: for n >= 1 leaves and a valid range set within them, BuildDiffProof *)
(* for numLeaves = n succeeds and VerifyDiffProof, given the compressed    *)
(* leaf hashes of the ranges, numLeaves = n, its proof and the true root,  *)
(* returns (true, no error).                                               *)
(***************************************************************************)
C2_DiffBuildVerifyRoundTrip ==
    (HonestRun("diff") /\ numLeaves = Len(leaves) /\ root = TrueRoot)
        => (built.err = NoErr /\ verdict = Accepted)

C2_Witness ==
    /\ HonestRun("diff") /\ numLeaves = Len(leaves) /\ root = TrueRoot
    /\ Len(leaves) = 7
    /\ Len(ranges) = 2
    /\ Len(proof) >= 4
    /\ verdict = Accepted

(***************************************************************************)
(* C3: for 0 <= start < end, nextSubtreeSize(start, end) is the largest    *)
(* power of two p with start mod p = 0 and start + p <= end.               *)
(***************************************************************************)
Fits(start, end, p) == IsPowerOfTwo(p) /\ start % p = 0 /\ start + p <= end

C3_NextSubtreeSizeLargestAligned ==
    phase = "sized" =>
        /\ Fits(sized.start, sized.end, sized.size)
        /\ \A q \in 1..sized.end :
             Fits(sized.start, sized.end, q) => q <= sized.size

\* an aligned start whose alignment allows more than the end does
C3_Witness ==
    /\ phase = "sized"
    /\ sized.start = 8 /\ sized.end = 15 /\ sized.size = 4

(***************************************************************************)
(* C4 as claimed: for any ranges, proof and leaf hashes,                   *)
(* VerifyMultiRangeProof returns true only when the root rebuilt from the  *)
(* proof digests and the range leaf hashes equals the supplied root.       *)
(***************************************************************************)
\* the root of the tree VerifyMultiRangeProof rebuilds; nothing is rebuilt
\* for an empty range set
RebuiltRoot ==
    IF Len(ranges) = 0 \/ ~SortedDisjoint(ranges) THEN NilDigest
    ELSE Root(verifyWalk(RangeLeafHashes(LeafHashes(leaves), ranges),
                         ranges, proof).tree)

C4_AcceptsOnlyRebuiltRoot_Claimed ==
    (phase = "verified" /\ kind = "range" /\ verdict.ok) => root = RebuiltRoot

(***************************************************************************)
(* C4 amended: for any non-empty range set, VerifyMultiRangeProof returns  *)
(* true only when the root rebuilt from the proof digests and the range    *)
(* leaf hashes equals the supplied root (and then without error); for an   *)
(* empty range set it returns true whatever the root.                      *)
(***************************************************************************)
C4_AcceptsOnlyRebuiltRoot ==
    (phase = "verified" /\ kind = "range") =>
        /\ (Len(ranges) > 0 /\ verdict.ok)
               => (root = RebuiltRoot /\ verdict.err = NoErr)
        /\ (Len(ranges) > 0 /\ verdict.err = NoErr /\ root # RebuiltRoot)
               => ~verdict.ok
        /\ Len(ranges) = 0 => verdict = Accepted

\* an altered proof whose rebuilt root is neither the true root nor the
\* supplied one is turned down
C4_Witness ==
    /\ phase = "verified" /\ kind = "range"
    /\ Len(ranges) > 0
    /\ tamper.op = "change"
    /\ root = TrueRoot
    /\ RebuiltRoot # root
    /\ verdict = [ok |-> FALSE, err |-> NoErr]

(***************************************************************************)
(* C5: a proof built for a valid, non-empty range set of an n-leaf tree,   *)
(* with one digest changed, one digest inserted at any position, or one    *)
(* digest deleted, is turned down by VerifyMultiRangeProof with the same   *)
(* ranges, leaf hashes and (true) root.                                    *)
(***************************************************************************)
TamperedRun(k) ==
    /\ phase = "verified"
    /\ kind = k
    /\ tamper.op \in {"change", "insert", "delete"}
    /\ Len(leaves) >= 1
    /\ Len(ranges) >= 1
    /\ SortedDisjoint(ranges)
    /\ Within(ranges, Len(leaves))
    /\ root = TrueRoot

C5_RangeProofMutationRejected ==
    TamperedRun("range") => ~verdict.ok

\* a digest of another subtree of the same tree, appended to the proof of a
\* single range of equal leaves
C5_Witness ==
    /\ TamperedRun("range")
    /\ Len(ranges) = 1
    /\ tamper = [op |-> "insert", pos |-> Len(built.proof) + 1]
    /\ proof[Len(proof)] # JunkDigest
    /\ Len(built.proof) >= 3
    /\ ~verdict.ok

(***************************************************************************)
(* C6: a diff proof built for a valid range set of an n-leaf tree and      *)
(* numLeaves = n, with one digest inserted (also at the end), changed or   *)
(* deleted, is turned down by VerifyDiffProof with the same range hashes,  *)
(* numLeaves, ranges and root.                                             *)
(***************************************************************************)
C6_DiffProofMutationRejected ==
    (TamperedRun("diff") /\ numLeaves = Len(leaves)) => ~verdict.ok

(***************************************************************************)
(* C7 as claimed: BuildMultiRangeProof fails with the invalid-range-set    *)
(* failure, before any call to the SubtreeHasher, whenever the range set   *)
(* is unsorted, overlapping, contains a range with Start >= End, or is     *)
(* empty.                                                                  *)
(***************************************************************************)
RangeBuilt == phase \in {"built", "verified"} /\ kind = "range"

FailedUpFront == built.err = PanicIllegalRanges /\ built.calls = <<>>

C7_InvalidRangeSetFails_Claimed ==
    (RangeBuilt /\ (~SortedDisjoint(ranges) \/ Len(ranges) = 0)) => FailedUpFront

(***************************************************************************)
(* C7 amended: BuildMultiRangeProof fails with the invalid-range-set       *)
(* failure, before any call to the SubtreeHasher, whenever the range set   *)
(* is unsorted, overlapping or contains a range with Start >= End; for an  *)
(* empty range set it returns an empty proof and no error, also without    *)
(* any call to the SubtreeHasher.                                          *)
(***************************************************************************)
C7_InvalidRangeSetFails ==
    RangeBuilt =>
        /\ ~SortedDisjoint(ranges) => (FailedUpFront /\ built.proof = <<>>)
        /\ Len(ranges) = 0 => built = NoBuild
        /\ FailedUpFront => ~SortedDisjoint(ranges)

\* two well-formed ranges that overlap, over a source that has the leaves
C7_Witness ==
    /\ RangeBuilt
    /\ Len(leaves) >= 3
    /\ Len(ranges) = 2
    /\ \A i \in 1..2 : ranges[i].Start < ranges[i].End
    /\ ranges[1].Start < ranges[2].Start
    /\ ranges[1].End > ranges[2].Start
    /\ FailedUpFront

(***************************************************************************)
(* C8: when the source holds fewer leaves than the last range's End,       *)
(* BuildMultiRangeProof returns io.ErrUnexpectedEOF and no proof, never    *)
(* io.EOF and never success, also when the source ends before a range's    *)
(* Start.                                                                  *)
(***************************************************************************)
C8_ShortSourceIsTruncatedInput ==
    (RangeBuilt /\ Len(ranges) > 0 /\ SortedDisjoint(ranges)
                /\ ~Within(ranges, Len(leaves)))
        => (built.err = ErrUnexpectedEOF /\ built.proof = <<>>)

(***************************************************************************)
(* C9: for a valid, non-empty range set within an n-leaf source, the proof *)
(* of BuildMultiRangeProof is, from left to right, the roots of the        *)
(* maximal aligned power-of-two blocks that cover the leaves outside the   *)
(* ranges, the last block being cut at leaf n.                             *)
(***************************************************************************)
InSomeRange(rs, s) == \E i \in 1..Len(rs) : rs[i].Start <= s /\ s < rs[i].End

\* the gap between ranges that position s lies in is [GapLow, GapHigh), and
\* the gap after the last range has no upper end
GapLow(rs, s) ==
    LET ends == {0} \cup { rs[i].End : i \in { j \in 1..Len(rs) : rs[j].End <= s } }
    IN  CHOOSE e \in ends : \A f \in ends : f <= e

HasGapHigh(rs, s) == \E i \in 1..Len(rs) : rs[i].Start > s

GapHigh(rs, s) ==
    LET starts == { rs[i].Start : i \in { j \in 1..Len(rs) : rs[j].Start > s } }
    IN  CHOOSE e \in starts : \A f \in starts : e <= f

\* the aligned block [s, s+p) lies in the gap of position at
BlockInGap(rs, at, s, p) ==
    /\ s % p = 0
    /\ GapLow(rs, at) <= s
    /\ HasGapHigh(rs, at) => s + p <= GapHigh(rs, at)

\* [s, s+p) is a maximal aligned block outside the ranges
MaximalBlock(rs, s, p) ==
    /\ ~InSomeRange(rs, s)
    /\ BlockInGap(rs, s, s, p)
    /\ ~BlockInGap(rs, s, s - (s % (2 * p)), 2 * p)

BlockSizes == { 2 ^ k : k \in 0..Len64(MaxLeaves + 1) }

RECURSIVE BlockRoots(_, _, _)
\* the roots of the maximal blocks that start at s or later, cut at the end
\* of the leaves
BlockRoots(hashes, rs, s) ==
    IF s >= Len(hashes) THEN <<>>
    ELSE LET sizes == { p \in BlockSizes : MaximalBlock(rs, s, p) }
             here  == IF sizes = {} THEN <<>>
                      ELSE LET p  == CHOOSE q \in sizes : TRUE
                               hi == IF s + p < Len(hashes) THEN s + p
                                     ELSE Len(hashes)
                           IN  <<MerkleRoot(SubSeq(hashes, s + 1, hi))>>
         IN  here \o BlockRoots(hashes, rs, s + 1)

CoveredBuild ==
    /\ RangeBuilt
    /\ Len(ranges) > 0
    /\ SortedDisjoint(ranges)
    /\ Within(ranges, Len(leaves))

C9_ProofIsMaximalBlockRoots ==
    CoveredBuild =>
        /\ built.err = NoErr
        /\ built.proof = BlockRoots(LeafHashes(leaves), ranges, 0)

\* 12 leaves and the range [3,5): the roots of [0,2) [2,3) [5,6) [6,8) [8,12)
C9_Witness ==
    /\ CoveredBuild
    /\ leaves = <<1, 2, 3, 4, 5, 6, 7, 8, 9, 10, 11, 12>>
    /\ ranges = <<[Start |-> 3, End |-> 5]>>
    /\ built.proof = << <<<<1>>, <<2>>>>, <<3>>, <<6>>, <<<<7>>, <<8>>>>,
                        << <<<<9>>, <<10>>>>, <<<<11>>, <<12>>>> >> >>

(***************************************************************************)
(* C10: for a valid, non-empty range set within the source,                *)
(* BuildMultiRangeProof calls the SubtreeHasher left to right over         *)
(* contiguous leaf positions starting at 0: NextSubtreeRoot with           *)
(* nextSubtreeSize(cursor, Start) up to each range's Start, Skip with      *)
(* nextSubtreeSize(cursor, End) one subtree at a time up to its End, and   *)
(* after the last range NextSubtreeRoot with an unbounded end until the    *)
(* source signals exhausted.                                               *)
(***************************************************************************)
\* the call the builder has to make with its cursor at pos
DueCall(rs, pos) ==
    IF \E i \in 1..Len(rs) : rs[i].Start <= pos /\ pos < rs[i].End
    THEN LET i == CHOOSE j \in 1..Len(rs) : rs[j].Start <= pos /\ pos < rs[j].End
         IN  [op |-> "Skip", n |-> nextSubtreeSize(pos, rs[i].End)]
    ELSE IF HasGapHigh(rs, pos)
    THEN [op |-> "NextSubtreeRoot", n |-> nextSubtreeSize(pos, GapHigh(rs, pos))]
    ELSE [op |-> "NextSubtreeRoot", n |-> nextSubtreeSize(pos, MaxUint64)]

DiffBuilt == phase \in {"built", "verified"} /\ kind = "diff"

\* the End of the last range, 0 for no range
LastEnd(rs) == IF Len(rs) = 0 THEN 0 ELSE rs[Len(rs)].End

\* where the cursor stands after the calls
CursorAfter(calls) ==
    IF Len(calls) = 0 THEN 0
    ELSE calls[Len(calls)].pos + calls[Len(calls)].n

C11_DiffBuildStopsAtNumLeaves ==
    (DiffBuilt /\ validRangeSet(ranges) /\ Within(ranges, numLeaves)) =>
        /\ \A k \in 1..Len(built.calls) :
             /\ built.calls[k].pos + built.calls[k].n <= numLeaves
             /\ built.calls[k].pos >= LastEnd(ranges) =>
                  /\ built.calls[k].op = "NextSubtreeRoot"
                  /\ built.calls[k].n =
                       nextSubtreeSize(built.calls[k].pos, numLeaves)
        /\ Len(leaves) >= numLeaves =>
             /\ built.err = NoErr
             /\ \A k \in 1..Len(built.calls) : built.calls[k].err = NoErr
             /\ CursorAfter(built.calls) = numLeaves

\* a diff proof over the whole source whose last range ends three leaves
\* before numLeaves, so that the trailing step takes two blocks
C11_Witness ==
    /\ DiffBuilt
    /\ Len(leaves) = 8 /\ numLeaves = 8
    /\ ranges = <<[Start |-> 1, End |-> 2], [Start |-> 4, End |-> 5]>>
    /\ built.err = NoErr
    /\ Len(built.calls) = 6
    /\ built.calls[5].op = "NextSubtreeRoot" /\ built.calls[5].n = 1
    /\ built.calls[6].op = "NextSubtreeRoot" /\ built.calls[6].n = 2
    /\ CursorAfter(built.calls) = 8

(***************************************************************************)
(* C12: after n >= 1 node digests were appended to a new or reset Stack,   *)
(* Root() is the reference Merkle root of those digests in order: a single *)
(* digest is its own root, and otherwise the left subtree covers the       *)
(* largest power of two strictly below n and is the left operand of the    *)
(* node hash.                                                              *)
(***************************************************************************)
C12_StackRootIsMerkleRoot ==
    Len(fed) >= 1 => StackRoot(stk) = MerkleRoot(LeafHashes(fed))

\* five digests appended after a reset, over slots an earlier run of eight
\* digests left behind
C12_Witness ==
    /\ fed = <<1, 2, 3, 4, 5>>
    /\ Len(stk.stack) = 4
    /\ stk.used = 5
    /\ StackRoot(stk) =
         nodeSum(nodeSum(nodeSum(leafSum(1), leafSum(2)),
                         nodeSum(leafSum(3), leafSum(4))),
                 leafSum(5))

(***************************************************************************)
(* C13: Root() of a Stack to which nothing was appended since it was       *)
(* created or last reset is nil, never a digest.                           *)
(***************************************************************************)
C13_EmptyStackRootIsNil ==
    Len(fed) = 0 => StackRoot(stk) = NilDigest

\* a reset Stack whose slots still hold the digests of the run before
C13_Witness ==
    /\ Len(fed) = 0
    /\ stk.used = 0
    /\ Len(stk.stack) = 4
    /\ stk.stack[1] # NilDigest
    /\ StackRoot(stk) = NilDigest

(***************************************************************************)
(* C14: a Stack fed the leaf hashes through AppendNode and a Tree fed the  *)
(* same n >= 1 leaves through Push hold, after every step, the same        *)
(* subtree digests at the same heights, and return the same Root().        *)
(***************************************************************************)
\* the subtrees a Stack holds: the occupied slots, each with its height
StackSubTrees(s) ==
    { [height |-> i, sum |-> s.stack[i + 1]] :
        i \in { j \in 0..(Len(s.stack) - 1) : ShiftRight(s.used, j) % 2 = 1 } }

\* the subtrees a Tree holds
TreeSubTrees(t) == { t.stack[k] : k \in 1..Len(t.stack) }

C14_StackMatchesTree ==
    Len(fed) >= 1 =>
        /\ StackSubTrees(stk) = TreeSubTrees(tr)
        /\ Cardinality(TreeSubTrees(tr)) = Len(tr.stack)
        /\ NumNodes(stk) = tr.currentIndex
        /\ StackRoot(stk) = Root(tr)

\* seven leaves: subtrees of heights 2, 1 and 0 on both sides
C14_Witness ==
    /\ fed = <<1, 2, 3, 4, 5, 6, 7>>
    /\ Len(tr.stack) = 3
    /\ StackSubTrees(stk) =
         { [height |-> 2,
            sum |-> nodeSum(nodeSum(leafSum(1), leafSum(2)),
                            nodeSum(leafSum(3), leafSum(4)))],
           [height |-> 1, sum |-> nodeSum(leafSum(5), leafSum(6))],
           [height |-> 0, sum |-> leafSum(7)] }
    /\ StackRoot(stk) = Root(tr)

(***************************************************************************)
(* C15: PushSubTree(height, digest) on a non-empty Tree returns the        *)
(* invalid-subtree error whenever height is greater than the height of the *)
(* last (smallest) subtree on the stack, and succeeds, when no proof index *)
(* is tracked, whenever height is less than or equal to it.                *)
(***************************************************************************)
\* the errors PushSubTree turns a subtree down with
InvalidSubtree == {ErrSubtreeTooLarge, ErrContainsProofIndex}

C15_PushSubTreeHeightOrder ==
    [][(lastCall'.op = "PushSubTree" /\ Len(tr.stack) > 0) =>
          LET height   == lastCall'.arg
              smallest == tr.stack[Len(tr.stack)].height
          IN  /\ height > smallest =>
                   /\ lastCall'.err \in InvalidSubtree
                   /\ ~tr.proofTree => lastCall'.err = ErrSubtreeTooLarge
                   /\ tr' = tr
              /\ (height <= smallest /\ ~tr.proofTree) =>
                   /\ lastCall'.err = NoErr
                   /\ tr'.currentIndex = tr.currentIndex + 2 ^ height]_vars

\* a subtree of height 1 turned down by a Tree of 5 leaves, whose smallest
\* subtree has height 0
C15_Witness ==
    /\ lastCall = TreeCall("PushSubTree", 1, ErrSubtreeTooLarge)
    /\ ~tr.proofTree
    /\ tr.currentIndex = 5
    /\ Len(tr.stack) = 2
    /\ tr.stack[2].height = 0

(***************************************************************************)
(* C16: on a Tree with SetIndex(i) in effect, PushSubTree(height, digest)  *)
(* returns the invalid-subtree error whenever the leaf span                *)
(* [currentIndex, currentIndex + 2^height) of the pushed subtree contains   *)
(* i, except for a subtree of height 0 pushed at index i, which is         *)
(* accepted and whose digest becomes the first entry of the proof set.     *)
(***************************************************************************)
C16_PushSubTreeAtProofIndex ==
    [][(lastCall'.op = "PushSubTree" /\ tr.proofTree) =>
          LET height  == lastCall'.arg
              inSpan  == /\ tr.currentIndex <= tr.proofIndex
                         /\ tr.proofIndex < tr.currentIndex + 2 ^ height
              atIndex == height = 0 /\ tr.currentIndex = tr.proofIndex
          IN  /\ (inSpan /\ ~atIndex) =>
                   /\ lastCall'.err \in InvalidSubtree
                   /\ tr' = tr
              /\ atIndex =>
                   /\ lastCall'.err = NoErr
                   /\ tr'.currentIndex = tr.currentIndex + 1
                   /\ Len(tr.proofSet) = 0
                   /\ Len(tr'.proofSet) >= 1
                   /\ tr'.proofSet[1] = leafSum(tr.currentIndex + 1)]_vars

\* with index 2 tracked and two leaves in the Tree, a subtree of height 1
\* covering leaves 2 and 3 is turned down
C16_Witness ==
    /\ lastCall = TreeCall("PushSubTree", 1, ErrContainsProofIndex)
    /\ tr.proofTree
    /\ tr.proofIndex = 2
    /\ tr.currentIndex = 2
    /\ Len(tr.proofSet) = 0

(***************************************************************************)
(* C17: SetIndex succeeds only on a Tree into which nothing has been       *)
(* pushed; after a successful Push or PushSubTree it returns an error and  *)
(* leaves the tracked index and the proof mode as they were.               *)
(***************************************************************************)
C17_SetIndexOnlyOnEmptyTree ==
    [][lastCall'.op = "SetIndex" =>
          /\ lastCall'.err = NoErr => Len(fed) = 0
          /\ Len(fed) > 0 =>
               /\ lastCall'.err = ErrSetIndex
               /\ tr'.proofIndex = tr.proofIndex
               /\ tr'.proofTree = tr.proofTree
               /\ tr' = tr]_vars

\* SetIndex(1) turned down by a Tree of three leaves that tracks index 2
C17_Witness ==
    /\ lastCall = TreeCall("SetIndex", 1, ErrSetIndex)
    /\ Len(fed) = 3
    /\ tr.proofTree
    /\ tr.proofIndex = 2

(***************************************************************************)
(* C18: after SetIndex(i) on an empty Tree and Push of n > i leaves,       *)
(* Prove() returns the index i, the leaf count n, the root, and a proof    *)
(* set whose first entry is the hash of leaf i and whose other entries     *)
(* are, bottom-up, the roots of the siblings on the path from leaf i to    *)
(* the root; folding them, each on the side that i and n put it on, gives  *)
(* Root().                                                                 *)
(***************************************************************************)
RECURSIVE AuditPath(_, _)
\* the sibling roots on the path from leaf i (counted from 0) to the root of
\* the reference tree over hashes, bottom-up
AuditPath(hashes, i) ==
    IF Len(hashes) <= 1 THEN <<>>
    ELSE LET k     == SplitPoint(Len(hashes))
             left  == SubSeq(hashes, 1, k)
             right == SubSeq(hashes, k + 1, Len(hashes))
         IN  IF i < k
             THEN Append(AuditPath(left, i), MerkleRoot(right))
             ELSE Append(AuditPath(right, i - k), MerkleRoot(left))

RECURSIVE FoldPath(_, _, _, _)
\* the root that leaf hash h at index i of n leaves and its audit path give
FoldPath(h, path, i, n) ==
    IF n <= 1 \/ Len(path) = 0 THEN h
    ELSE LET k    == SplitPoint(n)
             rest == SubSeq(path, 1, Len(path) - 1)
             top  == path[Len(path)]
         IN  IF i < k
             THEN nodeSum(FoldPath(h, rest, i, k), top)
             ELSE nodeSum(top, FoldPath(h, rest, i - k, n - k))

\* Prove was the last call, on a Tree that was given an index and then only
\* leaves through Push, more than the index
ProvedByPush ==
    /\ lastCall.op = "Prove"
    /\ tr.proofTree
    /\ ~cached
    /\ Len(fed) > tr.proofIndex

C18_ProveReturnsAuditPath ==
    ProvedByPush =>
        LET i      == tr.proofIndex
            n      == Len(fed)
            hashes == LeafHashes(fed)
        IN  /\ proved.panic = NoErr
            /\ proved.proofIndex = i
            /\ proved.numLeaves = n
            /\ proved.base = fed[i + 1]
            /\ proved.root = MerkleRoot(hashes)
            /\ proved.root = Root(tr)
            /\ Len(proved.proofSet) >= 1
            /\ proved.proofSet[1] = hashes[i + 1]
            /\ Tail(proved.proofSet) = AuditPath(hashes, i)
            /\ FoldPath(proved.proofSet[1], Tail(proved.proofSet), i, n)
                 = proved.root

\* leaf 5 of 7: the sibling leaf 4 on the left, the orphan leaf 6 on the
\* right, the first four leaves on the left
C18_Witness ==
    /\ ProvedByPush
    /\ tr.proofIndex = 5
    /\ Len(fed) = 7
    /\ proved.proofSet =
         << leafSum(6), leafSum(5), leafSum(7),
            nodeSum(nodeSum(leafSum(1), leafSum(2)),
                    nodeSum(leafSum(3), leafSum(4))) >>

\* C19: for a tree of n >= 1 leaves and a leaf index idx < n,
\* ConvertSingleProofToRangeProof of the proof set of Tree.Prove without its
\* leaf entry is the proof BuildRangeProof(idx, idx + 1) builds over the same
\* leaves, and ConvertRangeProofToSingleProof of that range proof is the
\* proof set of Tree.Prove without its leaf entry.
C19_ConvertersMatchBuilders ==
    conv.how = "built" =>
        /\ conv.toRange = conv.range
        /\ conv.toSingle = conv.single

\* a leaf of an unbalanced tree whose two proofs hold the same hashes in a
\* different order, with hashes on both sides of the leaf
C19_Witness ==
    /\ conv.how = "built"
    /\ conv.n = 11
    /\ conv.idx = 6
    /\ Len(conv.single) = 4
    /\ conv.single # conv.range
    /\ conv.toRange = conv.range
    /\ conv.toSingle = conv.single

\* C20: for a sequence of digests of any length and an index idx >= 0,
\* ConvertRangeProofToSingleProof(ConvertSingleProofToRangeProof(proof, idx),
\* idx) is proof, and so is ConvertSingleProofToRangeProof(
\* ConvertRangeProofToSingleProof(proof, idx), idx).
C20_ConvertersRoundTrip ==
    conv.how # "none" =>
        /\ conv.backSingle = conv.single
        /\ conv.backRange = conv.range

\* a sequence that is no proof for its index (the index has more set bits
\* than the sequence has digests), moved by the conversion and restored
C20_Witness ==
    /\ conv.how = "any"
    /\ Len(conv.single) = 3
    /\ OnesCount(conv.idx) > Len(conv.single)
    /\ conv.toRange # conv.single
    /\ conv.backSingle = conv.single
    /\ conv.backRange = conv.range

(***************************************************************************)
(* The side of a proof hash.  The leaves of the converted trees hold 1, 2, *)
(* 3, ... in order, so the leaf at position p holds p + 1, and a digest    *)
(* names the leaves it was computed from.                                  *)
(***************************************************************************)
RECURSIVE LeftmostLeaf(_)
LeftmostLeaf(digest) ==
    IF Len(digest) = 1 THEN digest[1] ELSE LeftmostLeaf(digest[1])

\* the hashes of p over leaves left of position idx, in the order of p
LeftSide(p, idx) ==
    LET isLeft(digest) == LeftmostLeaf(digest) <= idx
    IN  SelectSeq(p, isLeft)

\* the hashes of p over leaves right of position idx, in the order of p
RightSide(p, idx) ==
    LET isRight(digest) == LeftmostLeaf(digest) > idx + 1
    IN  SelectSeq(p, isRight)

\* C21 as stated: in the proof ConvertSingleProofToRangeProof gives, the
\* right-side hashes come first and the reversed left-side hashes are
\* concatenated after them.
C21_RightSideFirst_Claimed ==
    conv.how = "built" =>
        conv.toRange = RightSide(conv.single, conv.idx)
                           \o Reverse(LeftSide(conv.single, conv.idx))

\* C21: in the proof ConvertSingleProofToRangeProof gives, the left-side
\* hashes (set bits of idx) come first, in the reverse of their order in the
\* proof of Tree.Prove, and the right-side hashes (clear bits of idx) are
\* concatenated after them in their order in the proof of Tree.Prove.
C21_LeftSideFirst ==
    conv.how = "built" =>
        conv.toRange = Reverse(LeftSide(conv.single, conv.idx))
                           \o RightSide(conv.single, conv.idx)

\* a leaf with two hashes on its left and two on its right
C21_Witness ==
    /\ conv.how = "built"
    /\ conv.n = 11
    /\ conv.idx = 6
    /\ Len(LeftSide(conv.single, conv.idx)) = 2
    /\ Len(RightSide(conv.single, conv.idx)) = 2
    /\ conv.toRange = Reverse(LeftSide(conv.single, conv.idx))
                          \o RightSide(conv.single, conv.idx)

\* C22: the proof BuildDiffProof builds once over the old n-leaf tree for a
\* valid range set verifies with VerifyDiffProof against the old root with
\* the old range hashes and against the new root with the edited range
\* hashes, when the leaves within the ranges are replaced or swapped among
\* themselves, and in the 12-leaf scenario (swap(6,11), trim, swap(7,10),
\* two appends, range [12,13) added).
C22_OneProofOldAndNewRoot ==
    modif.how # "none" =>
        /\ modif.err = NoErr
        /\ modif.old = Accepted
        /\ modif.new = Accepted

\* the 12-leaf scenario: the root changes, the proof holds hashes, and the
\* old range hashes do not verify the new root
C22_Witness ==
    /\ modif.how = "scenario"
    /\ Len(modif.proof) = 3
    /\ modif.oldRoot # modif.newRoot
    /\ modif.old = Accepted
    /\ modif.new = Accepted
    /\ ~modif.stale.ok

RECURSIVE GreedyBlocks(_, _)
\* the blocks of [s, e): nextSubtreeSize(cursor, e) leaves at a time
GreedyBlocks(s, e) ==
    IF s >= e THEN <<>>
    ELSE LET cut(size) ==
                 <<[Start |-> s, End |-> s + size]>> \o GreedyBlocks(s + size, e)
         IN  cut(nextSubtreeSize(s, e))

RECURSIVE RangeBlocks(_)
RangeBlocks(rs) ==
    IF Len(rs) = 0 THEN <<>>
    ELSE GreedyBlocks(Head(rs).Start, Head(rs).End) \o RangeBlocks(Tail(rs))

\* a block of 2^k leaves that starts at a multiple of 2^k
AlignedBlock(s, size) ==
    /\ \E k \in 0..Len64(MaxCompLeaves) : size = 2 ^ k
    /\ s % size = 0

RECURSIVE MinBlocks(_, _)
\* the least number of aligned blocks that make up [s, e)
MinBlocks(s, e) ==
    IF s >= e THEN 0
    ELSE LET counts == { 1 + MinBlocks(s + size, e) :
                           size \in { z \in 1..(e - s) : AlignedBlock(s, z) } }
         IN  CHOOSE c \in counts : \A d \in counts : c <= d

RECURSIVE SumMinBlocks(_)
SumMinBlocks(rs) ==
    IF Len(rs) = 0 THEN 0
    ELSE MinBlocks(Head(rs).Start, Head(rs).End) + SumMinBlocks(Tail(rs))

RECURSIVE SumRangeLengths(_)
SumRangeLengths(rs) ==
    IF Len(rs) = 0 THEN 0
    ELSE Head(rs).End - Head(rs).Start + SumRangeLengths(Tail(rs))

RECURSIVE LeavesUnder(_)
\* the leaf data a digest was computed from
LeavesUnder(digest) ==
    IF Len(digest) = 1 THEN {digest[1]}
    ELSE LeavesUnder(digest[1]) \cup LeavesUnder(digest[2])

\* C23: CompressLeafHashes over a source that holds the leaf hashes of the
\* ranges returns, range by range, the roots of the blocks cut by
\* nextSubtreeSize(cursor, range.End); it takes Sum(End - Start) leaves from
\* the source, no digest covers leaves of two ranges, and no shorter list of
\* roots of aligned blocks covers the ranges range by range.
C23_CompressIsGreedyAndMinimal ==
    comp.how # "none" =>
        LET blocks == RangeBlocks(comp.ranges)
            hashes == LeafHashes(LeafDataAt(0, comp.n))
        IN  /\ comp.err = NoErr
            /\ comp.returned = [compressed |-> comp.compressed, err |-> NoErr]
            /\ comp.compressed =
                 [k \in 1..Len(blocks) |->
                    MerkleRoot(SubSeq(hashes, blocks[k].Start + 1, blocks[k].End))]
            /\ Len(comp.source) - Len(comp.rest) = SumRangeLengths(comp.ranges)
            /\ Len(comp.rest) = comp.extra
            /\ \A k \in 1..Len(comp.compressed) :
                 \E i \in 1..Len(comp.ranges) :
                   LeavesUnder(comp.compressed[k]) \subseteq
                       (comp.ranges[i].Start + 1)..comp.ranges[i].End
            /\ \A k \in 1..Len(blocks) :
                 AlignedBlock(blocks[k].Start, blocks[k].End - blocks[k].Start)
            /\ Len(comp.compressed) = SumMinBlocks(comp.ranges)

\* two neighbouring ranges that one digest could cover were they one range,
\* the first cut into more than one block
C23_Witness ==
    /\ comp.how = "compressed"
    /\ comp.extra = 1
    /\ Len(comp.ranges) = 2
    /\ comp.ranges[1] = [Start |-> 1, End |-> 4]
    /\ comp.ranges[2].Start = 4
    /\ comp.ranges[2].End = 8
    /\ Len(comp.compressed) = 3
    /\ Len(comp.rest) = 1

\* C24: with no edit applied, for an n-leaf tree, a valid non-empty range
\* set within [0, n] and a candidate root, VerifyDiffProof (fed
\* CompressLeafHashes of the range leaves, numLeaves = n and the proof of
\* BuildDiffProof) returns the verdict VerifyMultiRangeProof returns (fed
\* the range leaf hashes and the proof of BuildMultiRangeProof).
C24_DiffVerdictIsRangeVerdict ==
    agree.how # "none" =>
        /\ agree.rangeErr = NoErr
        /\ agree.diffErr = NoErr
        /\ agree.diff = agree.range
        /\ agree.range.ok = agree.isRoot

\* both verifiers turn down the root of a shorter tree; the range set has
\* two ranges and compression joins leaves
C24_Witness ==
    /\ agree.how = "verified"
    /\ agree.n = 8
    /\ Len(agree.ranges) = 2
    /\ agree.ranges[2] = [Start |-> 4, End |-> 8]
    /\ ~agree.isRoot
    /\ agree.root # JunkDigest
    /\ agree.root # NilDigest
    /\ agree.diff = [ok |-> FALSE, err |-> NoErr]
    /\ agree.range = [ok |-> FALSE, err |-> NoErr]

\* C25 as stated: a MixedSubtreeHasher serves a NextSubtreeRoot or Skip
\* request from its node hashes, taking size / leavesPerNode of them, exactly
\* when size is a multiple of leavesPerNode and at least leavesPerNode, and
\* from its leaf reader otherwise; and BuildDiffProof from a
\* MixedSubtreeHasher whose node hashes are the roots of aligned groups of
\* leavesPerNode leaves gives the proof it gives from a ReaderSubtreeHasher
\* over all leaves.
C25_MixedHasherServesWholeNodes ==
    /\ mixed.how = "called" =>
         IF mixed.size % mixed.leavesPerNode = 0
            /\ mixed.size >= mixed.leavesPerNode
         THEN /\ mixed.nodesUsed = mixed.size \div mixed.leavesPerNode
              /\ mixed.leavesUsed = 0
         ELSE /\ mixed.nodesUsed = 0
              /\ mixed.leavesUsed = mixed.size
    /\ (mixed.how = "built" /\ mixed.aligned) =>
         /\ mixed.err = mixed.readerErr
         /\ mixed.proof = mixed.readerProof

RECURSIVE SumOfSizes(_)
\* the leaves under the pending subtrees of a Tree, by their heights
SumOfSizes(subTrees) ==
    IF Len(subTrees) = 0 THEN 0
    ELSE 2 ^ Head(subTrees).height + SumOfSizes(Tail(subTrees))

RECURSIVE DigestHeight(_)
\* the height of the balanced tree a digest was computed from, -1 if the
\* tree is not balanced
DigestHeight(digest) ==
    IF Len(digest) = 1 THEN 0
    ELSE LET l == DigestHeight(digest[1])
             r == DigestHeight(digest[2])
         IN  IF l = r /\ l >= 0 THEN l + 1 ELSE 0 - 1

\* the heights whose bit is set in n
SetBits(n) == { i \in 0..Len64(n) : ShiftRight(n, i) % 2 = 1 }

\* C26: after any sequence of Push and PushSubTree calls on a Tree, accepted
\* or not, the heights of the pending subtrees go strictly down from first
\* to last and the sum of 2^height over them is currentIndex; and the
\* occupied heights of a Stack are the set bits of the number of nodes
\* appended since the last Reset.
C26_HeightsAreBinaryDigits ==
    /\ \A k \in 1..(Len(tr.stack) - 1) :
         tr.stack[k].height > tr.stack[k + 1].height
    /\ SumOfSizes(tr.stack) = tr.currentIndex
    /\ tr.currentIndex = Len(fed)
    /\ \A k \in 1..Len(tr.stack) :
         DigestHeight(tr.stack[k].sum) = tr.stack[k].height
    /\ { sub.height : sub \in StackSubTrees(stk) } = SetBits(Len(fed))
    /\ \A sub \in StackSubTrees(stk) : DigestHeight(sub.sum) = sub.height

\* a PushSubTree that was turned down on a Tree of three pending subtrees,
\* beside a Stack that was reset earlier and still holds a slot it does not
\* use
C26_Witness ==
    /\ lastCall.op = "PushSubTree"
    /\ lastCall.err = ErrSubtreeTooLarge
    /\ Len(tr.stack) = 3
    /\ Len(fed) = 7
    /\ Len(stk.stack) = 4
    /\ C26_HeightsAreBinaryDigits

(***************************************************************************)
(* C27: VerifyMultiRangeProof and VerifyDiffProof report a root that is    *)
(* not the root of the tree a well-formed walk builds as (false, no        *)
(* error); they return an error only for a data source that fails (the     *)
(* LeafHasher running out of leaf hashes) or a PushSubTree that is turned  *)
(* down, and they never return true together with an error.                *)
(***************************************************************************)
VerdictIsSound(v, rebuilt, rt) ==
    /\ v.err \in {NoErr, EOF} \cup InvalidSubtree
    /\ ~(v.ok /\ v.err # NoErr)
    /\ v.err = NoErr => (v.ok <=> rebuilt = rt)

C27_MismatchIsFalseWithoutError ==
    agree.how = "any" =>
        /\ VerdictIsSound(agree.diff,
                          Root(diffWalk(agree.hashes, agree.numLeaves,
                                        agree.ranges, agree.proof).tree),
                          agree.root)
        /\ Len(agree.ranges) > 0 =>
               VerdictIsSound(agree.range,
                              Root(verifyWalk(agree.hashes, agree.ranges,
                                              agree.proof).tree),
                              agree.root)
        /\ Len(agree.ranges) = 0 => agree.range = Accepted
        \* no PushSubTree of either walk is turned down: the only error is
        \* the LeafHasher running out
        /\ agree.diff.err = NoErr
        /\ agree.range.err = (IF Len(agree.hashes) < SumRangeLengths(agree.ranges)
                              THEN EOF ELSE NoErr)

\* a proof with a digest too many and range hashes to spare: both walks end
\* well-formed on a tree whose root is not the one supplied
C27_Witness ==
    /\ agree.how = "any"
    /\ Len(agree.ranges) = 2
    /\ agree.ranges[1] = [Start |-> 1, End |-> 3]
    /\ Len(agree.proof) = 5
    /\ Len(agree.hashes) = 5
    /\ agree.root # JunkDigest
    /\ agree.root # Root(diffWalk(agree.hashes, agree.numLeaves,
                                  agree.ranges, agree.proof).tree)
    /\ agree.diff = [ok |-> FALSE, err |-> NoErr]
    /\ agree.range = Accepted

(***************************************************************************)
(* C28 as stated: io.EOF, the exhausted signal of a data source, is never  *)
(* returned to the caller as an error by BuildMultiRangeProof,             *)
(* BuildDiffProof or VerifyMultiRangeProof; in every builder and verifier  *)
(* loop it only stops the walk.                                            *)
(***************************************************************************)
C28_ExhaustedNeverReturned ==
    /\ phase \in {"built", "verified"} => built.err # EOF
    /\ phase = "verified" => verdict.err # EOF

(***************************************************************************)
(* C29: for every proof length L >= 0 and every index idx >= 0, also idx   *)
(* far larger than L and idx with more set bits than L, proofMapping(L,    *)
(* idx) ends and is a permutation of 0..L-1; both converters read and      *)
(* write in-bounds slots only, fill every slot, and return a proof of      *)
(* length L.                                                               *)
(***************************************************************************)
IsPermutation(mapping, size) ==
    /\ Len(mapping) = size
    /\ { mapping[i] : i \in 1..Len(mapping) } = 0..(size - 1)

Digests(p) == { p[i] : i \in 1..Len(p) }

C29_MappingIsPermutation ==
    conv.how # "none" =>
        /\ Len(conv.single) = Len(conv.range)
        /\ IsPermutation(proofMapping(Len(conv.single), conv.idx),
                         Len(conv.single))
        /\ Len(conv.toRange) = Len(conv.single)
        /\ Len(conv.toSingle) = Len(conv.range)
        /\ NilDigest \notin Digests(conv.toRange) \cup Digests(conv.toSingle)
        /\ Digests(conv.toRange) = Digests(conv.single)
        /\ Digests(conv.toSingle) = Digests(conv.range)

\* an index of six set bits, far beyond a proof of four digests, which the
\* conversion reorders
C29_Witness ==
    /\ conv.how = "any"
    /\ Len(conv.single) = 4
    /\ conv.idx = 63
    /\ OnesCount(conv.idx) > Len(conv.single)
    /\ proofMapping(Len(conv.single), conv.idx) = <<3, 2, 1, 0>>
    /\ conv.toRange = Reverse(conv.single)
    /\ conv.toRange # conv.single

(***************************************************************************)
(* C30: after Reset a Stack that held any number of nodes behaves as a     *)
(* fresh one: NumNodes() is 0 and Root() is nil, and after every sequence  *)
(* of AppendNode calls that follows, Root() and NumNodes() are those of a  *)
(* newly created Stack fed the same sequence; no digest stored before the  *)
(* Reset shows in a later root.                                            *)
(***************************************************************************)
\* a newly created Stack fed the nodes appended since the last Reset
FreshStack == appendNodes(NewStack, LeafHashes(fed))

SameAsFresh(s, fresh) ==
    /\ NumNodes(s) = NumNodes(fresh)
    /\ StackRoot(s) = StackRoot(fresh)
    /\ StackSubTrees(s) = StackSubTrees(fresh)

C30_ResetStackIsFresh ==
    /\ NumNodes(stk) = Len(fed)
    /\ Len(fed) = 0 => StackRoot(stk) = NilDigest
    /\ SameAsFresh(stk, FreshStack)

\* three nodes appended after a Reset of a Stack that held eight: the slots
\* are not those of a fresh Stack, the root is
C30_Witness ==
    /\ Len(fed) = 3
    /\ Len(stk.stack) = 4
    /\ Len(FreshStack.stack) = 2
    /\ stk.stack[3] # NilDigest
    /\ stk.stack[4] # NilDigest
    /\ stk.stack[1] = FreshStack.stack[1]
    /\ StackRoot(stk) = StackRoot(FreshStack)
    /\ NumNodes(stk) = 3


====
